---- MODULE Spec2Model ----
(***************************************************************************)
(* Rule-based file organiser (course_oop): the file actions copy / mv /    *)
(* trash, the tag expressions that select items, Event::execute, the       *)
(* activity log and the background Executor (restart / stop / worker       *)
(* loop).                                                                  *)
(*                                                                         *)
(* Specifications:                                                         *)
(*   Spec     the Executor with its worker threads over a shared           *)
(*            filesystem and a mutex-guarded log                           *)
(*   SpecPass the one worker of the started application going through its *)
(*            passes                                                       *)
(*   SpecOps  single calls of copy / mv / trash on batches of paths        *)
(*   SpecTag  tag expressions built by new / default / push / remove and   *)
(*            queried by is / has on an item                               *)
(*   SpecExec single calls of Event::execute on a directory                *)
(*   SpecItem an Item, size() called on it while its file changes          *)
(*   SpecApp  the running application: rule edits, the log window, workers *)
(*   SpecLive the Executor with threads that are scheduled again and again *)
(*   SpecLife the built-in lifetime tags asked about a file as time passes *)
(*   SpecDrop the Executor called with restart and stop, then dropped      *)
(*   SpecPush restarts while workers push batches of entries to the log    *)
(*   SpecEdit the rule editor: events added, removed and given a new path  *)
(*   SpecNav  the Explorer: open, back, forward, refresh while directories *)
(*            become unreadable and readable again                         *)
(***************************************************************************)
EXTENDS Integers, Sequences, FiniteSets, TLC

VARIABLES
    fs,        \* filesystem: directory -> name -> entry
    dirKind,   \* directory -> "dir" | "notdir" | "unreadable"
    call,      \* the last call made, with its arguments and result (SpecOps,
               \* SpecTag, SpecExec, SpecItem); SpecApp: the last rule handler
    rules,     \* Database.rules of the foreground: directory -> list of rules
    sender,    \* Executor.sender: NoWorker (None) or the worker whose channel it feeds
    workers,   \* the spawned worker threads, by id 1..Len(workers)
    chan,      \* per worker: its channel, "empty" | "msg" | "taken" | "closed"
    log,       \* Log.0: the sequence of LogEntry
    mutex,     \* holder of the Arc<Mutex<Log>>: NoWorker, a worker id or Foreground
    logBy,     \* history: for each log entry, <<worker, tick>> that pushed it
    overlap,   \* history: pairs of <<worker, tick>> that were in progress together
    lastCall,  \* history: the last Executor method called, or "view" (log window)
    faulty,    \* the paths on which the library calls fail (permissions, I/O)
    fs0        \* history: the filesystem of the initial state

vars == <<fs, dirKind, call, rules, sender, workers, chan, log, mutex,
          logBy, overlap, lastCall, faulty, fs0>>

schedVars == <<rules, sender, workers, chan, log, mutex, logBy, overlap, lastCall,
               faulty, fs0>>

(***************************************************************************)
(* Bounds                                                                  *)
(***************************************************************************)
MaxBatch == 2      \* longest batch handed to copy / mv / trash in SpecOps
MaxWorkers == 2    \* restarts per behaviour (each spawns one worker)
MaxTicks == 3      \* passes started per behaviour, over all workers
MaxTerms == 3      \* most terms of a tag expression in SpecTag

(***************************************************************************)
(* Filesystem                                                              *)
(***************************************************************************)
Dirs == {"D", "E", "T"}
Names == {"a", "b"}
NameOrder == <<"a", "b">>      \* String ordering of the names
NoName == "none"               \* a path whose file_name() is None
NoDir == "nodir"               \* absent Option<PathBuf>
Contents == {1, 2, 3}

NoEntry == [tp |-> "None", data |-> 0]
FileEntry(c) == [tp |-> "File", data |-> c]
DirEntry == [tp |-> "Dir", data |-> 0]
Entries == {NoEntry, DirEntry} \cup {FileEntry(c) : c \in Contents}

Path(d, n) == [dir |-> d, name |-> n]

EmptyDir == [n \in Names |-> NoEntry]

\* Path::is_dir
is_dir(k, d) == d \in Dirs /\ k[d] \in {"dir", "unreadable"}

\* Path::exists (a failed stat is "does not exist")
exists(f, k, p) ==
    /\ p.dir \in Dirs
    /\ k[p.dir] = "dir"
    /\ IF p.name = NoName THEN TRUE ELSE f[p.dir][p.name] # NoEntry

\* Path::file_name
file_name(p) == p.name

EntryAt(f, p) == IF p.name = NoName THEN DirEntry ELSE f[p.dir][p.name]

(***************************************************************************)
(* SkippableResult                                                         *)
(***************************************************************************)
NoPath == Path(NoDir, NoName)
Ok(v) == [kind |-> "Ok", val |-> v]
Skipped == [kind |-> "Skipped", val |-> NoPath]
Err == [kind |-> "Err", val |-> NoPath]

(***************************************************************************)
(* The library calls under copy / mv / trash.  `fail` is an operating      *)
(* system failure of the call (permissions, I/O); a failed call leaves the *)
(* filesystem as it was.                                                   *)
(***************************************************************************)
Writable(f, k, p, to, overwrite) ==
    /\ p.name # NoName
    /\ exists(f, k, p)
    /\ k[to] = "dir"
    /\ \/ f[to][p.name] = NoEntry
       \/ overwrite /\ f[to][p.name].tp = f[p.dir][p.name].tp

\* fs_extra::copy_items(&[path], to, &options)
copy_items(f, k, p, to, overwrite, fail) ==
    IF ~fail /\ Writable(f, k, p, to, overwrite)
    THEN [ok |-> TRUE, fs |-> [f EXCEPT ![to][p.name] = f[p.dir][p.name]]]
    ELSE [ok |-> FALSE, fs |-> f]

\* fs_extra::move_items(&[path], to, &options)
move_items(f, k, p, to, overwrite, fail) ==
    IF ~fail /\ Writable(f, k, p, to, overwrite)
    THEN [ok |-> TRUE,
          fs |-> [[f EXCEPT ![to][p.name] = f[p.dir][p.name]]
                     EXCEPT ![p.dir][p.name] = NoEntry]]
    ELSE [ok |-> FALSE, fs |-> f]

\* trash::delete(path)
delete(f, k, p, fail) ==
    IF ~fail /\ p.name # NoName /\ exists(f, k, p)
    THEN [ok |-> TRUE, fs |-> [f EXCEPT ![p.dir][p.name] = NoEntry]]
    ELSE [ok |-> FALSE, fs |-> f]

(***************************************************************************)
(* copy / mv / trash: the closure applied to one path, then the map over   *)
(* the batch.  The filesystem is threaded through the batch in order.      *)
(***************************************************************************)
\* copy without the look at the target
copyItemIgnoresConflict(f, k, p, to, overwrite, fail) ==
    IF file_name(p) # NoName
    THEN IF is_dir(k, to)
         THEN LET r == copy_items(f, k, p, to, overwrite, fail)
              IN  [fs |-> r.fs, out |-> IF r.ok THEN Ok(p) ELSE Err]
         ELSE [fs |-> f, out |-> Err]
    ELSE [fs |-> f, out |-> Err]

\* copy that calls move_items, as mv does
copyItemUsesMove(f, k, p, to, overwrite, fail) ==
    IF file_name(p) # NoName
    THEN IF is_dir(k, to)
         THEN IF ~overwrite /\ exists(f, k, Path(to, file_name(p)))
              THEN [fs |-> f, out |-> Skipped]
              ELSE LET r == move_items(f, k, p, to, overwrite, fail)
                   IN  [fs |-> r.fs, out |-> IF r.ok THEN Ok(p) ELSE Err]
         ELSE [fs |-> f, out |-> Err]
    ELSE [fs |-> f, out |-> Err]

\* copy that never replaces an entry of the target
copyItemNeverOverwrites(f, k, p, to, overwrite, fail) ==
    IF file_name(p) # NoName
    THEN IF is_dir(k, to)
         THEN IF exists(f, k, Path(to, file_name(p)))
              THEN [fs |-> f, out |-> Skipped]
              ELSE LET r == copy_items(f, k, p, to, overwrite, fail)
                   IN  [fs |-> r.fs, out |-> IF r.ok THEN Ok(p) ELSE Err]
         ELSE [fs |-> f, out |-> Err]
    ELSE [fs |-> f, out |-> Err]

\* a copy that skips a source whose copy in the target is up to date
copyItemSkipsUpToDate(f, k, p, to, overwrite, fail) ==
    IF file_name(p) # NoName
    THEN IF is_dir(k, to)
         THEN IF /\ exists(f, k, Path(to, file_name(p)))
                 /\ (~overwrite \/ EntryAt(f, Path(to, file_name(p))) = EntryAt(f, p))
              THEN [fs |-> f, out |-> Skipped]
              ELSE LET r == copy_items(f, k, p, to, overwrite, fail)
                   IN  [fs |-> r.fs, out |-> IF r.ok THEN Ok(p) ELSE Err]
         ELSE [fs |-> f, out |-> Err]
    ELSE [fs |-> f, out |-> Err]

copyItem(f, k, p, to, overwrite, fail) ==
    IF file_name(p) # NoName
    THEN IF is_dir(k, to)
         THEN IF ~overwrite /\ exists(f, k, Path(to, file_name(p)))
              THEN [fs |-> f, out |-> Skipped]
              ELSE LET r == copy_items(f, k, p, to, overwrite, fail)
                   IN  [fs |-> r.fs, out |-> IF r.ok THEN Ok(p) ELSE Err]
         ELSE [fs |-> f, out |-> Err]
    ELSE [fs |-> f, out |-> Err]

\* mv that leaves the source in place, as copy does
mvItemUsesCopy(f, k, p, to, overwrite, fail) ==
    IF file_name(p) # NoName
    THEN IF is_dir(k, to)
         THEN IF ~overwrite /\ exists(f, k, Path(to, file_name(p)))
              THEN [fs |-> f, out |-> Skipped]
              ELSE LET r == copy_items(f, k, p, to, overwrite, fail)
                   IN  [fs |-> r.fs, out |-> IF r.ok THEN Ok(p) ELSE Err]
         ELSE [fs |-> f, out |-> Err]
    ELSE [fs |-> f, out |-> Err]

\* mv that skips, instead of failing, when the target is not a directory
mvItemSkipsNotDir(f, k, p, to, overwrite, fail) ==
    IF file_name(p) # NoName
    THEN IF is_dir(k, to)
         THEN IF ~overwrite /\ exists(f, k, Path(to, file_name(p)))
              THEN [fs |-> f, out |-> Skipped]
              ELSE LET r == move_items(f, k, p, to, overwrite, fail)
                   IN  [fs |-> r.fs, out |-> IF r.ok THEN Ok(p) ELSE Err]
         ELSE [fs |-> f, out |-> Skipped]
    ELSE [fs |-> f, out |-> Err]

mvItem(f, k, p, to, overwrite, fail) ==
    IF file_name(p) # NoName
    THEN IF is_dir(k, to)
         THEN IF ~overwrite /\ exists(f, k, Path(to, file_name(p)))
              THEN [fs |-> f, out |-> Skipped]
              ELSE LET r == move_items(f, k, p, to, overwrite, fail)
                   IN  [fs |-> r.fs, out |-> IF r.ok THEN Ok(p) ELSE Err]
         ELSE [fs |-> f, out |-> Err]
    ELSE [fs |-> f, out |-> Err]

\* trash that reports a missing path as an error
trashItemErrOnMissing(f, k, p, fail) ==
    IF exists(f, k, p)
    THEN LET r == delete(f, k, p, fail)
         IN  [fs |-> r.fs, out |-> IF r.ok THEN Ok(p) ELSE Err]
    ELSE [fs |-> f, out |-> Err]

\* a trash that reports Ok and leaves the file where it is
trashItemKeepsFile(f, k, p, fail) ==
    IF exists(f, k, p)
    THEN [fs |-> f, out |-> IF fail THEN Err ELSE Ok(p)]
    ELSE [fs |-> f, out |-> Skipped]

trashItem(f, k, p, fail) ==
    IF exists(f, k, p)
    THEN LET r == delete(f, k, p, fail)
         IN  [fs |-> r.fs, out |-> IF r.ok THEN Ok(p) ELSE Err]
    ELSE [fs |-> f, out |-> Skipped]

\* one closure call, by the kind of action
actItem(op, f, k, p, to, overwrite, fail) ==
    CASE op = "Copy" -> copyItem(f, k, p, to, overwrite, fail)
      [] op = "Move" -> mvItem(f, k, p, to, overwrite, fail)
      [] OTHER       -> trashItem(f, k, p, fail)

RECURSIVE mapFrom(_, _, _, _, _, _, _, _)
mapFrom(op, f, k, files, i, to, overwrite, fails) ==
    IF i > Len(files)
    THEN [fs |-> f, results |-> <<>>]
    ELSE LET r == actItem(op, f, k, files[i], to, overwrite, i \in fails)
             rest == mapFrom(op, r.fs, k, files, i + 1, to, overwrite, fails)
         IN  [fs |-> rest.fs, results |-> <<r.out>> \o rest.results]

\* a map that ends at the first outcome that is not Ok
RECURSIVE mapUntilNotOk(_, _, _, _, _, _, _, _)
mapUntilNotOk(op, f, k, files, i, to, overwrite, fails) ==
    IF i > Len(files)
    THEN [fs |-> f, results |-> <<>>]
    ELSE LET r == actItem(op, f, k, files[i], to, overwrite, i \in fails)
             rest == IF r.out.kind = "Ok"
                     THEN mapUntilNotOk(op, r.fs, k, files, i + 1, to, overwrite, fails)
                     ELSE [fs |-> r.fs, results |-> <<>>]
         IN  [fs |-> rest.fs, results |-> <<r.out>> \o rest.results]

copyStopsAtFirstNotOk(f, k, files, to, overwrite, fails) ==
    mapUntilNotOk("Copy", f, k, files, 1, to, overwrite, fails)

copy(f, k, files, to, overwrite, fails) ==
    mapFrom("Copy", f, k, files, 1, to, overwrite, fails)

mv(f, k, files, to, overwrite, fails) ==
    mapFrom("Move", f, k, files, 1, to, overwrite, fails)

trash(f, k, files, fails) ==
    mapFrom("Trash", f, k, files, 1, NoDir, FALSE, fails)

(***************************************************************************)
(* Item, Base, Tag, TagExpr                                                *)
(***************************************************************************)
NoSize == -1                   \* Item.size = None

\* Item::new: the type is read once, the size is not computed
Item(f, p) == [path |-> p, file_type |-> f[p.dir][p.name].tp, size |-> NoSize]

\* Item::new: symlink_metadata(path)? fails for a path that is not there
ItemNew(f, k, p) ==
    IF p.name # NoName /\ exists(f, k, p)
    THEN [ok |-> TRUE, item |-> Item(f, p)]
    ELSE [ok |-> FALSE, item |-> [path |-> p, file_type |-> "None", size |-> NoSize]]

\* fs_extra::dir::get_size(path): a file of content c has c bytes
get_size(f, k, p) ==
    IF p.name # NoName /\ exists(f, k, p)
    THEN [ok |-> TRUE, val |-> EntryAt(f, p).data]
    ELSE [ok |-> FALSE, val |-> NoSize]

\* Item::new_with_size: `get_size(&path)?`, then `..Item::new(path)?`
new_with_size(f, k, p) ==
    LET s == get_size(f, k, p)
        n == ItemNew(f, k, p)
    IN  IF s.ok /\ n.ok
        THEN [ok |-> TRUE, item |-> [n.item EXCEPT !.size = s.val]]
        ELSE [ok |-> FALSE, item |-> n.item]

\* a size() that measures again on every call
sizeAlwaysMeasures(item, f, k) ==
    LET r == new_with_size(f, k, item.path)
    IN  IF r.ok
        THEN [ok |-> TRUE, item |-> r.item, val |-> r.item.size]
        ELSE [ok |-> FALSE, item |-> item, val |-> NoSize]

\* Item::size(&mut self): the cached size, or `*self = Item::new_with_size(..)?`
size(item, f, k) ==
    IF item.size # NoSize
    THEN [ok |-> TRUE, item |-> item, val |-> item.size]
    ELSE LET r == new_with_size(f, k, item.path)
         IN  IF r.ok
             THEN [ok |-> TRUE, item |-> r.item, val |-> r.item.size]
             ELSE [ok |-> FALSE, item |-> item, val |-> NoSize]

\* infer::get_from_path: the format sniffed from the bytes of a file; content 1
\* is of no known format
ImageData == {2}
ArchiveData == {3}

BaseType(t) == [k |-> "Type", v |-> t]
BaseName(n) == [k |-> "Name", v |-> n]
BaseIsImage == [k |-> "IsImage", v |-> ""]

\* Base::is -> "T" | "F" for Ok(true) | Ok(false), "E" for Err
BaseIs(b, item, f, k) ==
    CASE b.k = "Type" -> IF item.file_type = b.v THEN "T" ELSE "F"
      [] b.k = "Name" -> IF item.path.name = b.v THEN "T" ELSE "F"
      [] OTHER ->
            IF exists(f, k, item.path) /\ EntryAt(f, item.path).tp = "File"
            THEN CASE EntryAt(f, item.path).data \in ImageData   -> "T"
                   [] EntryAt(f, item.path).data \in ArchiveData -> "F"
                   [] OTHER                                      -> "E"
            ELSE "E"

Tag(name, basis) == [name |-> name, desc |-> name, basis |-> basis]
TagFile == Tag("File", BaseType("File"))
TagFolder == Tag("Folder", BaseType("Dir"))
TagNameA == Tag("NameA", BaseName("a"))
TagImage == Tag("Image", BaseIsImage)
\* Tag::dummy, the tag of the default expression
TagDummy == Tag("Dummy", BaseName("dummy.test"))
\* a tag with the basis of File under another name and description
TagPlainFile == Tag("Plain file", BaseType("File"))

SingleTag(tag, used) == [tag |-> tag, used |-> used]

\* a term that ignores its sign
SingleIsIgnoresUsed(st, item, f, k) == BaseIs(st.tag.basis, item, f, k)

\* SingleTag::is
SingleIs(st, item, f, k) ==
    LET r == BaseIs(st.tag.basis, item, f, k)
    IN  IF r = "E" THEN "E" ELSE IF (r = "T") = st.used THEN "T" ELSE "F"

\* TagExpr(SingleTag, Vec<SingleTag>)
TagExprNew(tag, used) == [head |-> SingleTag(tag, used), rest |-> <<>>]

\* TagExpr::default: the head is SingleTag::default, no further term
TagExprDefault == [head |-> SingleTag(TagDummy, TRUE), rest |-> <<>>]

\* the head slot of an expression that holds no term; no operation of TagExpr
\* produces it
NoTerm == SingleTag(Tag(NoName, BaseName(NoName)), FALSE)

\* the terms of an expression: the head, then rest
Terms(e) == (IF e.head = NoTerm THEN <<>> ELSE <<e.head>>) \o e.rest
NumTerms(e) == Len(Terms(e))

\* TagExpr::has
TagExprHas(e, t) == e.head.tag = t \/ \E i \in 1..Len(e.rest) : e.rest[i].tag = t

\* Vec::remove(index)
RemoveAt(seq, index) == SubSeq(seq, 1, index - 1) \o SubSeq(seq, index + 1, Len(seq))

\* a remove that takes the head away even when it is the only term
TagExprRemoveEmpties(e, t) ==
    IF e.head.tag = t
    THEN IF e.rest # <<>>
         THEN [head |-> e.rest[1], rest |-> RemoveAt(e.rest, 1)]
         ELSE [head |-> NoTerm, rest |-> <<>>]
    ELSE IF \E i \in 1..Len(e.rest) : e.rest[i].tag = t
         THEN LET index == CHOOSE i \in 1..Len(e.rest) :
                              /\ e.rest[i].tag = t
                              /\ \A j \in 1..(i - 1) : e.rest[j].tag # t
              IN  [e EXCEPT !.rest = RemoveAt(e.rest, index)]
         ELSE e

\* a remove that takes the last matching term of rest instead of the first
TagExprRemoveLastMatch(e, t) ==
    IF e.head.tag = t /\ e.rest # <<>>
    THEN [head |-> e.rest[1], rest |-> RemoveAt(e.rest, 1)]
    ELSE IF \E i \in 1..Len(e.rest) : e.rest[i].tag = t
         THEN LET index == CHOOSE i \in 1..Len(e.rest) :
                              /\ e.rest[i].tag = t
                              /\ \A j \in (i + 1)..Len(e.rest) : e.rest[j].tag # t
              IN  [e EXCEPT !.rest = RemoveAt(e.rest, index)]
         ELSE e

\* TagExpr::remove
TagExprRemove(e, t) ==
    IF e.head.tag = t /\ e.rest # <<>>
    THEN [head |-> e.rest[1], rest |-> RemoveAt(e.rest, 1)]
    ELSE IF \E i \in 1..Len(e.rest) : e.rest[i].tag = t
         THEN LET index == CHOOSE i \in 1..Len(e.rest) :
                              /\ e.rest[i].tag = t
                              /\ \A j \in 1..(i - 1) : e.rest[j].tag # t
              IN  [e EXCEPT !.rest = RemoveAt(e.rest, index)]
         ELSE e

\* a push that leaves out a tag the expression already has
TagExprPushUnlessPresent(e, tag, used) ==
    IF TagExprHas(e, tag) THEN e
    ELSE [e EXCEPT !.rest = Append(e.rest, SingleTag(tag, used))]

\* TagExpr::push
TagExprPush(e, tag, used) == [e EXCEPT !.rest = Append(e.rest, SingleTag(tag, used))]

\* the loop of TagExpr::is from term i of rest on, with `result` so far:
\* `result && single.is(item)?` evaluates the term only when result is true
RECURSIVE IsFrom(_, _, _, _, _, _)
IsFrom(e, i, result, item, f, k) ==
    IF i > Len(e.rest) THEN result
    ELSE IF result = "F" THEN IsFrom(e, i + 1, "F", item, f, k)
    ELSE LET r == SingleIs(e.rest[i], item, f, k)
         IN  IF r = "E" THEN "E" ELSE IsFrom(e, i + 1, r, item, f, k)

\* an is() that evaluates every term and fails when any of them fails
TagExprIsEvaluatesAll(e, item, f, k) ==
    LET ts == <<e.head>> \o e.rest
        v(n) == SingleIs(ts[n], item, f, k)
    IN  IF \E n \in 1..Len(ts) : v(n) = "E" THEN "E"
        ELSE IF \A n \in 1..Len(ts) : v(n) = "T" THEN "T" ELSE "F"

\* TagExpr::is
TagExprIs(e, item, f, k) ==
    LET h == SingleIs(e.head, item, f, k)
    IN  IF h = "E" THEN "E" ELSE IsFrom(e, 1, h, item, f, k)

(***************************************************************************)
(* read_path, Event, LogEntry                                              *)
(***************************************************************************)
\* read_path: Err when the directory cannot be read; folders first, then by name
read_path(f, k, d) ==
    IF k[d] # "dir"
    THEN [ok |-> FALSE, items |-> <<>>]
    ELSE LET isDir(n) == f[d][n].tp = "Dir"
             isOther(n) == f[d][n].tp = "File"
             names == SelectSeq(NameOrder, isDir) \o SelectSeq(NameOrder, isOther)
         IN  [ok |-> TRUE, items |-> [i \in 1..Len(names) |-> Item(f, Path(d, names[i]))]]

EventCopy(expr, target, overwrite) ==
    [tp |-> "Copy", expr |-> expr, target |-> target, overwrite |-> overwrite]
EventMove(expr, target, overwrite) ==
    [tp |-> "Move", expr |-> expr, target |-> target, overwrite |-> overwrite]
EventTrash(expr) ==
    [tp |-> "Trash", expr |-> expr, target |-> NoDir, overwrite |-> FALSE]

\* a set_path that rebuilds the variant with its default flag
set_pathResetsOverwrite(event, p) ==
    IF event.tp \in {"Copy", "Move"}
    THEN [event |-> [event EXCEPT !.target = p, !.overwrite = FALSE], aborted |-> FALSE]
    ELSE [event |-> event, aborted |-> TRUE]

\* Event::set_path: Copy and Move assign the target; Trash reaches
\* unreachable!(), a panic
set_path(event, p) ==
    IF event.tp \in {"Copy", "Move"}
    THEN [event |-> [event EXCEPT !.target = p], aborted |-> FALSE]
    ELSE [event |-> event, aborted |-> TRUE]

\* a selection that fails as a whole when the expression errs on an item
selectFilesErrAborts(event, f, k, d) ==
    LET listed == read_path(f, k, d)
        keep(item) == TagExprIs(event.expr, item, f, k) = "T"
        kept == SelectSeq(listed.items, keep)
        errs == \E i \in 1..Len(listed.items) :
                    TagExprIs(event.expr, listed.items[i], f, k) = "E"
    IN  IF errs THEN [ok |-> FALSE, files |-> <<>>]
        ELSE [ok |-> listed.ok, files |-> [i \in 1..Len(kept) |-> kept[i].path]]

\* Event::execute, first half: list the directory and keep the paths of the
\* items the tag expression accepts (an Err of the expression drops the item)
selectFiles(event, f, k, d) ==
    LET listed == read_path(f, k, d)
        keep(item) == TagExprIs(event.expr, item, f, k) = "T"
        kept == SelectSeq(listed.items, keep)
    IN  [ok |-> listed.ok, files |-> [i \in 1..Len(kept) |-> kept[i].path]]

\* LogEntry::new(event, source, file); the time stamp is left out
LogEntry(event, source, file) == [event |-> event, source |-> source, file |-> file]

\* an entry whose source is the directory the file was found in
toEntrySourceIsFileDir(event, out) ==
    IF out.kind = "Ok"
    THEN Ok(LogEntry(event, out.val.dir, out.val))
    ELSE out

\* Event::execute, second half: an Ok(path) becomes Ok(LogEntry)
toEntry(event, out) ==
    IF out.kind = "Ok"
    THEN Ok(LogEntry(event, event.target, out.val))
    ELSE out

\* Event::execute(path) as a whole; `bad` are the paths the library calls fail on
execute(event, f, k, d, bad) ==
    LET sel == selectFiles(event, f, k, d)
        fails == {i \in 1..Len(sel.files) : sel.files[i] \in bad}
        r == mapFrom(event.tp, f, k, sel.files, 1, event.target, event.overwrite, fails)
    IN  IF ~sel.ok
        THEN [ok |-> FALSE, fs |-> f, files |-> <<>>, results |-> <<>>]
        ELSE [ok |-> TRUE, fs |-> r.fs, files |-> sel.files,
              results |-> [i \in 1..Len(r.results) |-> toEntry(event, r.results[i])]]

\* Log::push
pushFront(l, entry) == <<entry>> \o l
push(l, entry) == Append(l, entry)

(***************************************************************************)
(* SpecOps: one call of copy / mv / trash on a filesystem drawn by Init    *)
(***************************************************************************)
NoWorker == 0

IdleScheduler ==
    /\ rules = [d \in {} |-> <<>>]
    /\ sender = NoWorker
    /\ workers = <<>>
    /\ chan = <<>>
    /\ log = <<>>
    /\ mutex = NoWorker
    /\ logBy = <<>>
    /\ overlap = {}
    /\ lastCall = "none"
    /\ faulty = {}
    /\ fs0 = fs

BatchPaths == {Path("D", n) : n \in Names \cup {NoName}}
Batches(paths) == UNION {[1..m -> paths] : m \in 0..MaxBatch}

InitOps ==
    /\ \E da \in {NoEntry, FileEntry(1)},
          db \in {NoEntry, FileEntry(1), FileEntry(2), DirEntry},
          ta \in {NoEntry, FileEntry(1), FileEntry(2)},
          tb \in {NoEntry, FileEntry(2)} :
            fs = [d \in Dirs |->
                    CASE d = "D" -> [n \in Names |-> IF n = "a" THEN da ELSE db]
                      [] d = "T" -> [n \in Names |-> IF n = "a" THEN ta ELSE tb]
                      [] OTHER   -> EmptyDir]
    /\ \E kt \in {"dir", "notdir"} :
            dirKind = [d \in Dirs |-> IF d = "T" THEN kt ELSE "dir"]
    /\ call = [op |-> "none", files |-> <<>>, to |-> NoDir, overwrite |-> FALSE,
               fails |-> {}, pre |-> fs, results |-> <<>>]
    /\ IdleScheduler

CallCopy ==
    /\ call.op = "none"
    /\ \E files \in Batches(BatchPaths), overwrite \in BOOLEAN :
       \E fails \in SUBSET (1..Len(files)) :
          LET r == copy(fs, dirKind, files, "T", overwrite, fails)
          IN  /\ fs' = r.fs
              /\ call' = [op |-> "Copy", files |-> files, to |-> "T",
                          overwrite |-> overwrite, fails |-> fails, pre |-> fs,
                          results |-> r.results]
    /\ UNCHANGED <<dirKind, schedVars>>

CallMv ==
    /\ call.op = "none"
    /\ \E files \in Batches(BatchPaths), overwrite \in BOOLEAN :
       \E fails \in SUBSET (1..Len(files)) :
          LET r == mv(fs, dirKind, files, "T", overwrite, fails)
          IN  /\ fs' = r.fs
              /\ call' = [op |-> "Move", files |-> files, to |-> "T",
                          overwrite |-> overwrite, fails |-> fails, pre |-> fs,
                          results |-> r.results]
    /\ UNCHANGED <<dirKind, schedVars>>

CallTrash ==
    /\ call.op = "none"
    /\ \E files \in Batches({Path("D", n) : n \in Names}) :
       \E fails \in SUBSET (1..Len(files)) :
          LET r == trash(fs, dirKind, files, fails)
          IN  /\ fs' = r.fs
              /\ call' = [op |-> "Trash", files |-> files, to |-> NoDir,
                          overwrite |-> FALSE, fails |-> fails, pre |-> fs,
                          results |-> r.results]
    /\ UNCHANGED <<dirKind, schedVars>>

NextOps == CallCopy \/ CallMv \/ CallTrash

SpecOps == InitOps /\ [][NextOps]_vars

(***************************************************************************)
(* Claims about copy / mv / trash (SpecOps)                                *)
(***************************************************************************)
Called == call.op # "none"
Distinct(files) == \A i, j \in 1..Len(files) : files[i] = files[j] => i = j

\* the filesystem source i of the call meets: the one left by sources 1..i-1
FsBefore(i) ==
    mapFrom(call.op, call.pre, dirKind, SubSeq(call.files, 1, i - 1), 1,
            call.to, call.overwrite, call.fails).fs

\* the outcome of source i of the call, processed on filesystem f
OutcomeOn(f, i) ==
    actItem(call.op, f, dirKind, call.files[i], call.to, call.overwrite,
            i \in call.fails).out

\* C8: for copy, mv and trash a batch of n sources yields exactly n outcomes,
\* outcome i is the outcome of source i (on the filesystem the sources before
\* it left; for pairwise different sources that is the outcome on the
\* filesystem before the call, whatever happened to the other sources), and
\* an Ok outcome carries source i.
C8_OneOutcomePerSourceInOrder ==
    Called =>
        /\ Len(call.results) = Len(call.files)
        /\ \A i \in 1..Len(call.files) :
              /\ i <= Len(call.results)
              /\ call.results[i] = OutcomeOn(FsBefore(i), i)
              /\ Distinct(call.files) => call.results[i] = OutcomeOn(call.pre, i)
              /\ call.results[i].kind = "Ok" => call.results[i].val = call.files[i]

\* a Skipped or Err outcome is followed by an Ok one (copy_multiple, mv_multiple)
C8_Witness ==
    /\ call.op \in {"Copy", "Move"}
    /\ Len(call.results) = 2
    /\ call.results[1].kind = "Skipped"
    /\ call.results[2].kind = "Ok"

\* C9: copy with overwrite = false of a source whose name exists in the target
\* directory yields Skipped, and the source and the target entry are as before.
C9_CopySkipChangesNothing ==
    (call.op = "Copy" /\ ~call.overwrite) =>
        \A i \in 1..Len(call.files) :
            exists(call.pre, dirKind, Path(call.to, call.files[i].name))
               /\ call.files[i].name # NoName =>
                /\ i <= Len(call.results)
                /\ call.results[i] = Skipped
                /\ fs[call.to][call.files[i].name] = call.pre[call.to][call.files[i].name]
                /\ fs[call.files[i].dir][call.files[i].name]
                      = call.pre[call.files[i].dir][call.files[i].name]

\* copy_skip: one existing source, a different same-named file in the target
C9_Witness ==
    /\ call.op = "Copy" /\ ~call.overwrite
    /\ call.files = <<Path("D", "a")>>
    /\ call.pre["D"]["a"] = FileEntry(1)
    /\ call.pre["T"]["a"] = FileEntry(2)
    /\ call.results = <<Skipped>>
    /\ fs = call.pre

\* C10: copy with overwrite = false of a single existing file whose name is not
\* in the target directory, the library call succeeding, yields exactly one Ok
\* outcome; afterwards the file is at the source and, with the same content,
\* in the target.
C10_CopyOneNewFile ==
    (/\ call.op = "Copy" /\ ~call.overwrite
     /\ Len(call.files) = 1
     /\ call.fails = {}
     /\ call.files[1].name # NoName
     /\ is_dir(dirKind, call.to)
     /\ exists(call.pre, dirKind, call.files[1])
     /\ ~exists(call.pre, dirKind, Path(call.to, call.files[1].name))) =>
        /\ call.results = <<Ok(call.files[1])>>
        /\ exists(fs, dirKind, call.files[1])
        /\ fs[call.files[1].dir][call.files[1].name]
              = call.pre[call.files[1].dir][call.files[1].name]
        /\ fs[call.to][call.files[1].name]
              = call.pre[call.files[1].dir][call.files[1].name]

\* copy_one
C10_Witness ==
    /\ call.op = "Copy" /\ ~call.overwrite
    /\ call.files = <<Path("D", "a")>>
    /\ call.fails = {}
    /\ call.pre["D"]["a"] = FileEntry(1)
    /\ call.pre["T"]["a"] = NoEntry
    /\ call.results = <<Ok(Path("D", "a"))>>
    /\ fs["D"]["a"] = FileEntry(1)
    /\ fs["T"]["a"] = FileEntry(1)

\* the library call for source i is not failed by the operating system
LibraryWorks(i) == i \notin call.fails

\* source i of the call, and the same name in the target directory
Src(i) == call.files[i]
Dst(i) == Path(call.to, call.files[i].name)

\* C11: copy with overwrite = true of an existing file whose name is taken by a
\* file in the target directory (the library call succeeding) yields Ok; the
\* target entry then has the content of the source, and the source is as before.
C11_CopyOverwriteReplaces ==
    (call.op = "Copy" /\ call.overwrite /\ is_dir(dirKind, call.to)) =>
        \A i \in 1..Len(call.files) :
            (/\ Src(i).name # NoName
             /\ LibraryWorks(i)
             /\ EntryAt(call.pre, Src(i)).tp = "File"
             /\ EntryAt(call.pre, Dst(i)).tp = "File") =>
                /\ i <= Len(call.results)
                /\ call.results[i] = Ok(Src(i))
                /\ EntryAt(fs, Dst(i)) = EntryAt(call.pre, Src(i))
                /\ EntryAt(fs, Src(i)) = EntryAt(call.pre, Src(i))

\* copy_overwrite: the target held a file of the same name and other content
C11_Witness ==
    /\ call.op = "Copy" /\ call.overwrite
    /\ call.files = <<Path("D", "a")>>
    /\ call.fails = {}
    /\ call.pre["D"]["a"] = FileEntry(1)
    /\ call.pre["T"]["a"] = FileEntry(2)
    /\ call.results = <<Ok(Path("D", "a"))>>
    /\ fs["T"]["a"] = FileEntry(1)
    /\ fs["D"]["a"] = FileEntry(1)

\* C12: mv of an existing source into a directory: when the name is taken in
\* the target and overwrite = false the outcome is Skipped and the source is
\* still there; when overwrite = true (over an entry of the same type), or when
\* the name is free, the outcome is Ok and the source is gone (the library call
\* succeeding).
C12_MoveConflictPolicy ==
    (call.op = "Move" /\ is_dir(dirKind, call.to)) =>
        \A i \in 1..Len(call.files) :
            (Src(i).name # NoName /\ exists(FsBefore(i), dirKind, Src(i))) =>
                /\ i <= Len(call.results)
                /\ (exists(FsBefore(i), dirKind, Dst(i)) /\ ~call.overwrite) =>
                      /\ call.results[i] = Skipped
                      /\ EntryAt(fs, Src(i)) = EntryAt(FsBefore(i), Src(i))
                      /\ EntryAt(fs, Dst(i)) = EntryAt(FsBefore(i), Dst(i))
                /\ (/\ LibraryWorks(i)
                    /\ \/ ~exists(FsBefore(i), dirKind, Dst(i))
                       \/ /\ call.overwrite
                          /\ EntryAt(FsBefore(i), Dst(i)).tp = EntryAt(FsBefore(i), Src(i)).tp) =>
                      /\ call.results[i] = Ok(Src(i))
                      /\ ~exists(fs, dirKind, Src(i))
                      /\ EntryAt(fs, Dst(i)) = EntryAt(FsBefore(i), Src(i))

\* mv_overwrite: the target held a file of the same name, the source is gone
C12_Witness ==
    /\ call.op = "Move" /\ call.overwrite
    /\ call.files = <<Path("D", "a")>>
    /\ call.fails = {}
    /\ call.pre["D"]["a"] = FileEntry(1)
    /\ call.pre["T"]["a"] = FileEntry(2)
    /\ call.results = <<Ok(Path("D", "a"))>>
    /\ fs["D"]["a"] = NoEntry
    /\ fs["T"]["a"] = FileEntry(1)

\* C13: trash of a path that does not exist yields Skipped and changes nothing;
\* trash of an existing path (the library call succeeding) yields Ok for it, and
\* the path does not exist afterwards.
C13_TrashMissingSkippedExistingGone ==
    call.op = "Trash" =>
        \A i \in 1..Len(call.files) :
            /\ i <= Len(call.results)
            /\ ~exists(FsBefore(i), dirKind, Src(i)) =>
                  /\ call.results[i] = Skipped
                  /\ ~exists(fs, dirKind, Src(i))
            /\ (exists(FsBefore(i), dirKind, Src(i)) /\ LibraryWorks(i)) =>
                  /\ call.results[i] = Ok(Src(i))
                  /\ ~exists(fs, dirKind, Src(i))

\* trash_multiple with a missing path: one existing file, one missing
C13_Witness ==
    /\ call.op = "Trash"
    /\ call.files = <<Path("D", "a"), Path("D", "b")>>
    /\ call.fails = {}
    /\ call.pre["D"]["a"] = FileEntry(1)
    /\ call.pre["D"]["b"] = NoEntry
    /\ call.results = <<Ok(Path("D", "a")), Skipped>>
    /\ fs["D"]["a"] = NoEntry

\* C14: copy and mv into a target that is not a directory give Err for every
\* source of the batch, whatever the overwrite flag, and leave the filesystem
\* as it was.
C14_TargetNotDirAllErr ==
    (call.op \in {"Copy", "Move"} /\ ~is_dir(dirKind, call.to)) =>
        /\ Len(call.results) = Len(call.files)
        /\ \A i \in 1..Len(call.results) : call.results[i] = Err
        /\ fs = call.pre

\* a move with overwrite of two existing sources into a target that is no directory
C14_Witness ==
    /\ call.op = "Move" /\ call.overwrite
    /\ dirKind["T"] = "notdir"
    /\ call.files = <<Path("D", "a"), Path("D", "b")>>
    /\ call.pre["D"]["a"] = FileEntry(1)
    /\ call.pre["D"]["b"] = FileEntry(1)
    /\ call.results = <<Err, Err>>
    /\ fs = call.pre

(***************************************************************************)
(* Spec: the Executor, its worker threads and the foreground handlers      *)
(***************************************************************************)
Rule(title, events) == [title |-> title, events |-> events]

IsFileExpr == TagExprNew(TagFile, TRUE)
RuleCopy == Rule("copy", <<EventCopy(IsFileExpr, "T", FALSE)>>)
RuleCopyOver == Rule("copy over", <<EventCopy(IsFileExpr, "T", TRUE)>>)
RuleMoveTrash ==
    Rule("move, trash",
         <<EventMove(TagExprNew(TagNameA, TRUE), "T", FALSE), EventTrash(IsFileExpr)>>)

RECURSIVE Flatten(_)
Flatten(ss) == IF ss = <<>> THEN <<>> ELSE Head(ss) \o Flatten(Tail(ss))

\* the events of one directory's rules, in rule order, then event order
DirJobs(d, rs) ==
    LET evs == Flatten([j \in 1..Len(rs) |-> rs[j].events])
    IN  [i \in 1..Len(evs) |-> [dir |-> d, event |-> evs[i]]]

\* `for (dir, rules) in rule_map.iter() { for rule in rules { for event in .. `:
\* the pass as the sequence of (directory, event) it executes
Jobs(order, snap) == Flatten([i \in 1..Len(order) |-> DirJobs(order[i], snap[order[i]])])

\* the iteration orders a HashMap with these keys may have
Orders(S) ==
    {o \in [1..Cardinality(S) -> S] : \A i, j \in 1..Cardinality(S) : o[i] = o[j] => i = j}

WJobs(wk) == Jobs(wk.order, wk.snap)
InTick(wk) == wk.pc \in {"list", "act", "lock", "push"}
Ids == DOMAIN workers

RECURSIVE SumTicks(_)
SumTicks(ws) == IF ws = <<>> THEN 0 ELSE Head(ws).tick + SumTicks(Tail(ws))
TicksStarted == SumTicks(workers)

\* the filesystem with these entries in D, T and E
FsOf(dEntries, tEntries, eEntries) ==
    [d \in Dirs |-> CASE d = "D" -> dEntries [] d = "T" -> tEntries [] OTHER -> eEntries]

OnlyA(e) == [n \in Names |-> IF n = "a" THEN e ELSE NoEntry]
Both(ea, eb) == [n \in Names |-> IF n = "a" THEN ea ELSE eb]
AllDirs == [d \in Dirs |-> "dir"]

\* the configurations the application starts in: the rule map loaded from the
\* database, the directories' contents, and what is wrong with them
Scenarios ==
    { \* one file, empty target: copy without overwrite
      [rules |-> [d \in {"D"} |-> <<RuleCopy>>],
       fs |-> FsOf(OnlyA(FileEntry(1)), EmptyDir, EmptyDir),
       kind |-> AllDirs, faulty |-> {}],
      \* a folder and a file, the file already in the target
      [rules |-> [d \in {"D"} |-> <<RuleCopy>>],
       fs |-> FsOf(Both(DirEntry, FileEntry(1)), OnlyA(FileEntry(2)), EmptyDir),
       kind |-> AllDirs, faulty |-> {}],
      \* two files, one already in the target
      [rules |-> [d \in {"D"} |-> <<RuleCopy>>],
       fs |-> FsOf(Both(FileEntry(1), FileEntry(1)), OnlyA(FileEntry(2)), EmptyDir),
       kind |-> AllDirs, faulty |-> {}],
      \* two files, the library call fails on one
      [rules |-> [d \in {"D"} |-> <<RuleCopy>>],
       fs |-> FsOf(Both(FileEntry(1), FileEntry(1)), EmptyDir, EmptyDir),
       kind |-> AllDirs, faulty |-> {Path("D", "a")}],
      \* copy with overwrite
      [rules |-> [d \in {"D"} |-> <<RuleCopyOver>>],
       fs |-> FsOf(OnlyA(FileEntry(1)), EmptyDir, EmptyDir),
       kind |-> AllDirs, faulty |-> {}],
      \* a rule of two events: move, then trash
      [rules |-> [d \in {"D"} |-> <<RuleMoveTrash>>],
       fs |-> FsOf(Both(FileEntry(1), FileEntry(2)), EmptyDir, EmptyDir),
       kind |-> AllDirs, faulty |-> {}],
      \* two watched directories, one of them unreadable
      [rules |-> [d \in {"D", "E"} |-> IF d = "D" THEN <<RuleCopy>> ELSE <<RuleCopyOver>>],
       fs |-> FsOf(OnlyA(FileEntry(1)), EmptyDir, OnlyA(FileEntry(2))),
       kind |-> [d \in Dirs |-> IF d = "D" THEN "unreadable" ELSE "dir"], faulty |-> {}] }

Init ==
    /\ \E s \in Scenarios :
          /\ fs = s.fs
          /\ dirKind = s.kind
          /\ faulty = s.faulty
          /\ rules = s.rules
    /\ fs0 = fs
    /\ call = [op |-> "none", files |-> <<>>, to |-> NoDir, overwrite |-> FALSE,
               fails |-> {}, pre |-> fs, results |-> <<>>]
    /\ sender = NoWorker
    /\ workers = <<>>
    /\ chan = <<>>
    /\ log = <<>>
    /\ mutex = NoWorker
    /\ logBy = <<>>
    /\ overlap = {}
    /\ lastCall = "none"

\* Sender::send(StopMessage) to the worker the Executor holds a sender for
SendStop(c, to) == IF to = NoWorker THEN c ELSE [c EXCEPT ![to] = "msg"]

\* history: where the message found the worker: in a pass with events still to
\* come ("early"), in the last event of a pass ("late"), or between passes ("idle")
NoteSignal(ws, to) ==
    IF to = NoWorker THEN ws
    ELSE [ws EXCEPT ![to].sigMid =
            IF ~InTick(ws[to]) THEN "idle"
            ELSE IF ws[to].pos < Len(WJobs(ws[to])) THEN "early" ELSE "late"]

\* thread::spawn: the worker starts at the top of its loop with a clone of the map
NewWorker(map, order) ==
    [pc |-> "check", order |-> order, snap |-> map, pos |-> 0, files |-> <<>>,
     fi |-> 0, results |-> <<>>, tick |-> 0, sigMid |-> "no"]

\* a restart that hands the map itself, not a clone, to every thread
restartSharesMap(map) ==
    /\ Len(workers) < MaxWorkers
    /\ \E order \in Orders(DOMAIN map) :
          workers' = Append([i \in 1..Len(workers) |->
                               [NoteSignal(workers, sender)[i] EXCEPT !.snap = map]],
                            NewWorker(map, order))
    /\ chan' = Append(SendStop(chan, sender), "empty")
    /\ sender' = Len(workers) + 1
    /\ lastCall' = "restart"

\* Executor::restart(rule_map)
restart(map) ==
    /\ Len(workers) < MaxWorkers
    /\ \E order \in Orders(DOMAIN map) :
          workers' = Append(NoteSignal(workers, sender), NewWorker(map, order))
    /\ chan' = Append(SendStop(chan, sender), "empty")
    /\ sender' = Len(workers) + 1
    /\ lastCall' = "restart"

\* App::init: executor.restart(db.rules()); also any later direct call
Restart ==
    /\ restart(rules)
    /\ UNCHANGED <<fs, dirKind, call, rules, log, mutex, logBy, overlap, faulty, fs0>>

\* a stop that sends through the sender and keeps it
StopKeepsSender ==
    /\ chan' = SendStop(chan, sender)
    /\ workers' = NoteSignal(workers, sender)
    /\ sender' = sender
    /\ lastCall' = "stop"
    /\ UNCHANGED <<fs, dirKind, call, rules, log, mutex, logBy, overlap, faulty, fs0>>

\* Executor::stop
Stop ==
    /\ chan' = SendStop(chan, sender)
    /\ workers' = NoteSignal(workers, sender)
    /\ sender' = NoWorker
    /\ lastCall' = "stop"
    /\ UNCHANGED <<fs, dirKind, call, rules, log, mutex, logBy, overlap, faulty, fs0>>

\* after an event: the next event of the pass, or the sleep that ends the pass
Advance(wk) ==
    IF wk.pos < Len(WJobs(wk))
    THEN [wk EXCEPT !.pc = "list", !.pos = wk.pos + 1]
    ELSE [wk EXCEPT !.pc = "check"]

\* a worker that looks at its channel only before its first pass
StopSeenBeforeFirstPass(w) == chan[w] = "msg" /\ workers[w].tick = 0

\* a stop check that takes a disconnected channel for a message
StopSeenOrDisconnected(w) == chan[w] \in {"msg", "closed"}

\* receiver.try_recv().is_ok()
StopSeenInverted(w) == chan[w] # "msg"
StopSeen(w) == chan[w] = "msg"

\* top of the loop: `if receiver.try_recv().is_ok() { return; }`, else the pass begins
WorkerCheck(w) ==
    /\ workers[w].pc = "check"
    /\ IF StopSeen(w)
       THEN /\ chan' = [chan EXCEPT ![w] = "taken"]
            /\ workers' = [workers EXCEPT ![w].pc = "done"]
            /\ UNCHANGED overlap
       ELSE /\ TicksStarted < MaxTicks
            /\ UNCHANGED chan
            /\ IF WJobs(workers[w]) = <<>>
               THEN /\ workers' = [workers EXCEPT ![w].tick = @ + 1]
                    /\ UNCHANGED overlap
               ELSE /\ workers' = [workers EXCEPT ![w].tick = @ + 1, ![w].pc = "list",
                                                  ![w].pos = 1]
                    /\ overlap' = overlap \cup
                          {{<<w, workers[w].tick + 1>>, <<v, workers[v].tick>>} :
                               v \in {u \in Ids : u # w /\ InTick(workers[u])}}
    /\ UNCHANGED <<fs, dirKind, call, rules, sender, log, mutex, logBy, lastCall,
                   faulty, fs0>>

\* an Err of execute handled like an Ok: the worker goes on to push
OnExecuteErrPushes(wk) == [wk EXCEPT !.pc = "lock"]

\* `Err(e) => eprintln!(..)`: the loop goes on with the next event
OnExecuteErrReturns(wk) == [wk EXCEPT !.pc = "done"]
OnExecuteErr(wk) == Advance(wk)

\* a listing taken once, from the filesystem the application started with
WorkerListFromSnapshot(w) ==
    /\ workers[w].pc = "list"
    /\ LET wk == workers[w]
           job == WJobs(wk)[wk.pos]
           sel == selectFiles(job.event, fs0, dirKind, job.dir)
       IN  workers' = [workers EXCEPT ![w] =
              IF ~sel.ok THEN OnExecuteErr(wk)
              ELSE IF sel.files = <<>>
                   THEN [wk EXCEPT !.pc = "lock", !.files = <<>>, !.fi = 0,
                                   !.results = <<>>]
                   ELSE [wk EXCEPT !.pc = "act", !.files = sel.files, !.fi = 1,
                                   !.results = <<>>]]
    /\ UNCHANGED <<fs, dirKind, call, rules, sender, chan, log, mutex, logBy, overlap,
                   lastCall, faulty, fs0>>

\* event.execute(dir), first half: read_path(path)? and the filter
WorkerList(w) ==
    /\ workers[w].pc = "list"
    /\ LET wk == workers[w]
           job == WJobs(wk)[wk.pos]
           sel == selectFiles(job.event, fs, dirKind, job.dir)
       IN  workers' = [workers EXCEPT ![w] =
              IF ~sel.ok THEN OnExecuteErr(wk)
              ELSE IF sel.files = <<>>
                   THEN [wk EXCEPT !.pc = "lock", !.files = <<>>, !.fi = 0,
                                   !.results = <<>>]
                   ELSE [wk EXCEPT !.pc = "act", !.files = sel.files, !.fi = 1,
                                   !.results = <<>>]]
    /\ UNCHANGED <<fs, dirKind, call, rules, sender, chan, log, mutex, logBy, overlap,
                   lastCall, faulty, fs0>>

\* event.execute(dir), second half: copy / mv / trash on the next selected path;
\* after the last one the outcomes become Ok(LogEntry) / Skipped / Err
WorkerAct(w) ==
    /\ workers[w].pc = "act"
    /\ LET wk == workers[w]
           job == WJobs(wk)[wk.pos]
           p == wk.files[wk.fi]
           r == actItem(job.event.tp, fs, dirKind, p, job.event.target,
                        job.event.overwrite, p \in faulty)
           outs == Append(wk.results, r.out)
       IN  /\ fs' = r.fs
           /\ workers' = [workers EXCEPT ![w] =
                 IF wk.fi < Len(wk.files)
                 THEN [wk EXCEPT !.fi = wk.fi + 1, !.results = outs]
                 ELSE [wk EXCEPT !.pc = "lock",
                         !.results = [i \in 1..Len(outs) |-> toEntry(job.event, outs[i])]]]
    /\ UNCHANGED <<dirKind, call, rules, sender, chan, log, mutex, logBy, overlap,
                   lastCall, faulty, fs0>>

\* a loop that pushes whatever the result holds
RECURSIVE pushResultsAll(_, _)
pushResultsAll(l, results) ==
    IF results = <<>> THEN l
    ELSE pushResultsAll(push(l, Head(results).val), Tail(results))

\* `for result in results { match result { Ok(entry) => log.push(entry), .. } }`
RECURSIVE pushResults(_, _)
pushResults(l, results) ==
    IF results = <<>> THEN l
    ELSE pushResults(IF Head(results).kind = "Ok" THEN push(l, Head(results).val) ELSE l,
                     Tail(results))

\* a worker that looks at its channel after every event
WorkerPushChecksStop(w) ==
    /\ workers[w].pc = "lock"
    /\ mutex = NoWorker
    /\ log' = pushResults(log, workers[w].results)
    /\ logBy' = logBy \o [i \in 1..(Len(log') - Len(log)) |-> <<w, workers[w].tick>>]
    /\ mutex' = mutex
    /\ IF chan[w] = "msg"
       THEN /\ workers' = [workers EXCEPT ![w].pc = "done"]
            /\ chan' = [chan EXCEPT ![w] = "taken"]
       ELSE /\ workers' = [workers EXCEPT ![w] = Advance(workers[w])]
            /\ UNCHANGED chan
    /\ UNCHANGED <<fs, dirKind, call, rules, sender, overlap, lastCall, faulty, fs0>>

\* `let mut log = log.lock()`, the loop over the results, and the guard dropped:
\* one step, taken when the mutex is free
WorkerPush(w) ==
    /\ workers[w].pc = "lock"
    /\ mutex = NoWorker
    /\ log' = pushResults(log, workers[w].results)
    /\ logBy' = logBy \o [i \in 1..(Len(log') - Len(log)) |-> <<w, workers[w].tick>>]
    /\ mutex' = mutex
    /\ workers' = [workers EXCEPT ![w] = Advance(workers[w])]
    /\ UNCHANGED <<fs, dirKind, call, rules, sender, chan, overlap, lastCall, faulty, fs0>>

Worker(w) ==
    WorkerCheck(w) \/ WorkerList(w) \/ WorkerAct(w) \/ WorkerPush(w)

Next ==
    \/ Restart
    \/ Stop
    \/ \E w \in Ids : Worker(w)

Spec == Init /\ [][Next]_vars

(***************************************************************************)
(* Claims about the Executor (Spec)                                        *)
(***************************************************************************)
Busy == {w \in Ids : InTick(workers[w])}

\* C1: while restart is called with a worker running, no state has two worker
\* threads both inside a pass over their rule maps.
C1_AtMostOneWorkerInTick == Cardinality(Busy) <= 1

\* C2: the log never holds two equal entries (same event, same file) pushed by
\* two different workers in passes that ran at the same time.
C2_NoDuplicateFromRacingWorkers ==
    \A i, j \in 1..Len(log) :
        (i < j /\ log[i] = log[j] /\ logBy[i][1] # logBy[j][1])
            => {logBy[i], logBy[j]} \notin overlap

C3_Step ==
    /\ \A w \in Ids :
          /\ (chan[w] # "empty" /\ ~InTick(workers[w])) => ~InTick(workers'[w])
          /\ chan[w] # "empty" => workers'[w].tick = workers[w].tick
    /\ lastCall' = "stop" => sender' = NoWorker

\* C3: once a StopMessage is in a worker's channel the worker starts no further
\* pass, and after stop() the Executor holds no sender.
C3_AfterStopNoFurtherTick == [][C3_Step]_vars

\* stop() reached the running worker, which ended after the pass it was in
C3_Witness ==
    /\ lastCall = "stop"
    /\ sender = NoWorker
    /\ workers # <<>>
    /\ chan[Len(workers)] = "taken"
    /\ workers[Len(workers)].pc = "done"
    /\ workers[Len(workers)].tick >= 1

C4_Step ==
    \A w \in Ids :
        LET wk == workers[w]
            nx == workers'[w]
        IN  /\ (chan[w] # "taken" /\ chan'[w] = "taken") => wk.pc = "check"
            /\ InTick(wk) =>
                  /\ nx.pc # "done"
                  /\ nx.tick = wk.tick
                  /\ ~InTick(nx) => wk.pos = Len(WJobs(wk)) /\ nx.pc = "check"
                  /\ InTick(nx) => nx.pos \in {wk.pos, wk.pos + 1}
                  /\ nx.pos = wk.pos + 1 => wk.pc \in {"list", "lock"}
            /\ (wk.pc = "act" /\ nx.pc = "act") =>
                  /\ nx.pos = wk.pos
                  /\ nx.fi \in {wk.fi, wk.fi + 1}
            /\ (wk.pc = "act" /\ nx.pc # "act") =>
                  /\ wk.fi = Len(wk.files)
                  /\ nx.pc = "lock"
                  /\ Len(nx.results) = Len(wk.files)

\* C4: a worker inside a pass, signalled or not, goes through every remaining
\* event of the pass and every selected file of each event; it takes the
\* StopMessage only at the top of the loop.
C4_TickRunsToCompletion == [][C4_Step]_vars

\* the message arrived with events of the pass still to come; the worker ended
\* only after the whole pass
C4_Witness ==
    \E w \in Ids :
        /\ workers[w].sigMid = "early"
        /\ workers[w].pc = "done"
        /\ workers[w].pos = Len(WJobs(workers[w]))
        /\ Len(WJobs(workers[w])) = 2

C5_Step ==
    \A w \in Ids :
        LET wk == workers[w]
            nx == workers'[w]
        IN  /\ (nx.pc = "done" /\ wk.pc # "done") => (wk.pc = "check" /\ chan[w] = "msg")
            /\ (wk.pc = "list" /\ (nx.pc # wk.pc \/ nx.pos # wk.pos)
                  /\ ~read_path(fs, dirKind, WJobs(wk)[wk.pos].dir).ok) =>
                  IF wk.pos < Len(WJobs(wk))
                  THEN nx.pc = "list" /\ nx.pos = wk.pos + 1
                  ELSE nx.pc = "check"
            /\ (wk.pc = "act" /\ wk.files[wk.fi] \in faulty /\ (nx.pc # wk.pc \/ nx.fi # wk.fi)) =>
                  IF wk.fi < Len(wk.files)
                  THEN nx.pc = "act" /\ nx.fi = wk.fi + 1
                  ELSE nx.pc = "lock"

\* C5: a worker ends only by taking a StopMessage at the top of its loop; after
\* a directory that cannot be listed it goes on with the next event (or the
\* next pass), after a failed file action with the next file.
C5_ErrorsNeverEndTheLoop == [][C5_Step]_vars

\* a worker in its second pass although a watched directory cannot be listed
C5_Witness ==
    \E w \in Ids :
        /\ workers[w].tick = 2
        /\ workers[w].pc = "lock"
        /\ \E d \in DOMAIN workers[w].snap : dirKind[d] = "unreadable"

\* C6: D holds the one file a, T is empty, the one rule of D is
\* Copy("is file", T, overwrite = false): after one pass of the one worker the
\* log holds exactly one entry, and its path is T/a.
C6_OneTickOneEntryAtTarget ==
    (/\ fs0 = FsOf(OnlyA(FileEntry(1)), EmptyDir, EmptyDir)
     /\ dirKind = AllDirs
     /\ faulty = {}
     /\ Len(workers) = 1
     /\ workers[1].snap = [d \in {"D"} |-> <<RuleCopy>>]
     /\ workers[1].tick = 1
     /\ workers[1].pc = "check") =>
        /\ Len(log) = 1
        /\ log[1].file = Path("T", "a")

NumOk(results) == Cardinality({i \in 1..Len(results) : results[i].kind = "Ok"})
IsOkResult(r) == r.kind = "Ok"
OkEntries(results) ==
    LET oks == SelectSeq(results, IsOkResult)
    IN  [i \in 1..Len(oks) |-> oks[i].val]

C7_Step ==
    /\ \A w \in Ids :
          (workers[w].pc = "lock" /\ workers'[w].pc # "lock") =>
              /\ Len(log') = Len(log) + NumOk(workers[w].results)
              /\ log' = log \o OkEntries(workers[w].results)
    /\ (\A w \in Ids : ~(workers[w].pc = "lock" /\ workers'[w].pc # "lock")) => log' = log

\* C7: the entries an event execution appends to the log are exactly its Ok
\* outcomes, in order; Skipped and Err outcomes append nothing, and nothing
\* else appends to the log.
C7_OneEntryPerOkOutcome == [][C7_Step]_vars

\* an execution with a Skipped and an Ok outcome has appended one entry
C7_Witness ==
    /\ Len(workers) = 1
    /\ workers[1].tick = 1
    /\ workers[1].pc = "check"
    /\ Len(workers[1].results) = 2
    /\ workers[1].results[1].kind = "Skipped"
    /\ workers[1].results[2].kind = "Ok"
    /\ Len(log) = 1

(***************************************************************************)
(* SpecPass: the application after start-up, its one worker going through  *)
(* its passes; no rule is edited, so restart and stop are not called again *)
(***************************************************************************)
RuleMove == Rule("move", <<EventMove(IsFileExpr, "T", FALSE)>>)
RuleTrash == Rule("trash", <<EventTrash(IsFileExpr)>>)

PassScenarios ==
    Scenarios \cup
    { \* move two files, the name of one is taken in the target
      [rules |-> [d \in {"D"} |-> <<RuleMove>>],
       fs |-> FsOf(Both(FileEntry(1), FileEntry(2)), OnlyA(FileEntry(2)), EmptyDir),
       kind |-> AllDirs, faulty |-> {}],
      \* trash the files of a directory that also holds a folder
      [rules |-> [d \in {"D"} |-> <<RuleTrash>>],
       fs |-> FsOf(Both(FileEntry(1), DirEntry), EmptyDir, EmptyDir),
       kind |-> AllDirs, faulty |-> {}],
      \* copy two files with overwrite
      [rules |-> [d \in {"D"} |-> <<RuleCopyOver>>],
       fs |-> FsOf(Both(FileEntry(1), FileEntry(2)), EmptyDir, EmptyDir),
       kind |-> AllDirs, faulty |-> {}],
 \* two watched directories; the one with a rule of two events is unreadable
      [rules |-> [d \in {"D", "E"} |-> IF d = "D" THEN <<RuleMoveTrash>> ELSE <<RuleCopyOver>>],
       fs |-> FsOf(OnlyA(FileEntry(1)), EmptyDir, OnlyA(FileEntry(2))),
       kind |-> [d \in Dirs |-> IF d = "D" THEN "unreadable" ELSE "dir"], faulty |-> {}],
      \* two rules on one directory: move a, trash the files, then copy the files
      [rules |-> [d \in {"D"} |-> <<RuleMoveTrash, RuleCopy>>],
       fs |-> FsOf(Both(FileEntry(1), FileEntry(2)), EmptyDir, EmptyDir),
       kind |-> AllDirs, faulty |-> {}] }

\* App::init has called executor.restart(db.rules()) once
InitPass ==
    /\ \E s \in PassScenarios :
          /\ fs = s.fs
          /\ dirKind = s.kind
          /\ faulty = s.faulty
          /\ rules = s.rules
    /\ fs0 = fs
    /\ call = [op |-> "none", files |-> <<>>, to |-> NoDir, overwrite |-> FALSE,
               fails |-> {}, pre |-> fs, results |-> <<>>]
    /\ \E order \in Orders(DOMAIN rules) : workers = <<NewWorker(rules, order)>>
    /\ chan = <<"empty">>
    /\ sender = 1
    /\ log = <<>>
    /\ mutex = NoWorker
    /\ logBy = <<>>
    /\ overlap = {}
    /\ lastCall = "restart"

NextPass == \E w \in Ids : Worker(w)

SpecPass == InitPass /\ [][NextPass]_vars

\* the job a worker inside a pass is at
JobOf(wk) == WJobs(wk)[wk.pos]

C19_Step ==
    \A w \in Ids :
        LET wk == workers[w]
            nx == workers'[w]
        IN  (/\ wk.pc = "list"
             /\ nx # wk
             /\ ~read_path(fs, dirKind, JobOf(wk).dir).ok) =>
                /\ InTick(nx) => JobOf(nx).dir # JobOf(wk).dir
                /\ (\E j \in (wk.pos + 1)..Len(WJobs(wk)) :
                        WJobs(wk)[j].dir # JobOf(wk).dir) => InTick(nx)
                /\ nx.pc # "done"
                /\ nx.snap = wk.snap

\* C19: when the directory of an event cannot be listed, the worker attempts no
\* further event of that directory in the same pass; it still goes through the
\* other directories of the map in this pass, and it stays in its loop with the
\* same map, so the directory is tried again in the next pass.
C19_UnlistableDirAbortedForTick == [][C19_Step]_vars

C20_Step ==
    \A w \in Ids :
        LET wk == workers[w]
            nx == workers'[w]
        IN  /\ (wk.pc = "check" /\ nx.pc = "list") => \A d \in DOMAIN wk.snap :
                  LET isMine(job) == job.dir = d
                      mine == SelectSeq(WJobs(wk), isMine)
                      evs == Flatten([j \in 1..Len(wk.snap[d]) |-> wk.snap[d][j].events])
                  IN  /\ Len(mine) = Len(evs)
                      /\ \A i \in 1..Len(evs) : i <= Len(mine) => mine[i].event = evs[i]
            /\ (InTick(wk) /\ InTick(nx) /\ nx.pos # wk.pos) =>
                  nx.pos = wk.pos + 1 /\ nx.tick = wk.tick
            /\ (wk.pc = "list" /\ nx.pc = "act") =>
                  /\ nx.pos = wk.pos
                  /\ \A i \in 1..Len(nx.files) :
                        /\ nx.files[i].dir = JobOf(wk).dir
                        /\ exists(fs, dirKind, nx.files[i])
                        /\ TagExprIs(JobOf(wk).event.expr, Item(fs, nx.files[i]),
                                     fs, dirKind) = "T"
                  /\ \A n \in Names :
                        (/\ fs[JobOf(wk).dir][n] # NoEntry
                         /\ TagExprIs(JobOf(wk).event.expr, Item(fs, Path(JobOf(wk).dir, n)),
                                      fs, dirKind) = "T") =>
                            \E i \in 1..Len(nx.files) : nx.files[i] = Path(JobOf(wk).dir, n)
            /\ (wk.pc = "list" /\ nx.pc = "lock" /\ nx.pos = wk.pos
                  /\ read_path(fs, dirKind, JobOf(wk).dir).ok) =>
                  \A n \in Names :
                        fs[JobOf(wk).dir][n] = NoEntry
                        \/ TagExprIs(JobOf(wk).event.expr, Item(fs, Path(JobOf(wk).dir, n)),
                                     fs, dirKind) # "T"

\* C20: the events of a directory's rules are executed in rule and list order,
\* one after the other within a pass, and every event selects from the
\* directory as it is when the event starts: the paths it acts on exist then
\* and match its expression, and no matching entry is left out (a file moved
\* away by an earlier event of the pass is not selected).
C20_EventsInOrderOnCurrentFs == [][C20_Step]_vars

\* "move a, then trash every file": after one pass a is in T; the trash event
\* selected b alone, and the log holds the move of a and the trashing of b
C20_Witness ==
    /\ Len(workers) = 1
    /\ workers[1].snap = [d \in {"D"} |-> <<RuleMoveTrash>>]
    /\ workers[1].tick = 1
    /\ workers[1].pc = "check"
    /\ workers[1].files = <<Path("D", "b")>>
    /\ fs["T"]["a"] = FileEntry(1)
    /\ fs["D"] = EmptyDir
    /\ Len(log) = 2
    /\ log[1].event.tp = "Move" /\ log[1].file = Path("D", "a")
    /\ log[2].event.tp = "Trash" /\ log[2].file = Path("D", "b")

(***************************************************************************)
(* SpecTag: a tag expression under new / default / push / remove, with     *)
(* is and has asked of it for the item D/a                                  *)
(***************************************************************************)
TagPool == {TagFile, TagPlainFile, TagImage, TagDummy}

\* the item the expression is asked about
TheItem == Item(fs, Path("D", "a"))

TagCall(op, e, pre, tag, used, result) ==
    [op |-> op, expr |-> e, pre |-> pre, tag |-> tag, used |-> used, result |-> result]

InitTag ==
    /\ \E e \in {DirEntry, FileEntry(1), FileEntry(2), FileEntry(3)} :
          fs = FsOf(OnlyA(e), EmptyDir, EmptyDir)
    /\ dirKind = AllDirs
    /\ \/ \E t \in TagPool, u \in BOOLEAN :
             call = TagCall("new", TagExprNew(t, u), TagExprNew(t, u), t, u, "none")
       \/ call = TagCall("default", TagExprDefault, TagExprDefault, TagDummy, TRUE, "none")
    /\ IdleScheduler

\* expr.push(tag, used)
TagPush ==
    /\ NumTerms(call.expr) < MaxTerms
    /\ \E t \in TagPool, u \in BOOLEAN :
          call' = TagCall("push", TagExprPush(call.expr, t, u), call.expr, t, u, "none")
    /\ UNCHANGED <<fs, dirKind, schedVars>>

\* expr.remove(&tag)
TagRemove ==
    /\ \E t \in TagPool :
          call' = TagCall("remove", TagExprRemove(call.expr, t), call.expr, t, TRUE, "none")
    /\ UNCHANGED <<fs, dirKind, schedVars>>

\* expr.is(&mut item)
TagIs ==
    /\ call' = TagCall("is", call.expr, call.expr, call.tag, TRUE,
                       TagExprIs(call.expr, TheItem, fs, dirKind))
    /\ UNCHANGED <<fs, dirKind, schedVars>>

\* expr.has(&tag)
TagHas ==
    /\ \E t \in TagPool :
          call' = TagCall("has", call.expr, call.expr, t, TRUE,
                          IF TagExprHas(call.expr, t) THEN "T" ELSE "F")
    /\ UNCHANGED <<fs, dirKind, schedVars>>

NextTag == TagPush \/ TagRemove \/ TagIs \/ TagHas

SpecTag == InitTag /\ [][NextTag]_vars

(***************************************************************************)
(* Claims about tag expressions (SpecTag)                                  *)
(***************************************************************************)
\* the value of term i's predicate on the item, and whether the term holds
TermValue(e, i) == BaseIs(Terms(e)[i].tag.basis, TheItem, fs, dirKind)
TermHolds(e, i) == (TermValue(e, i) = "T") = Terms(e)[i].used
TermIds(e) == 1..NumTerms(e)

\* C15: is(item) is the conjunction, over the head and every term of rest, of
\* (basis.is(item) == used): when every predicate has a value the result is
\* that conjunction; a result of true means every term holds, a result of
\* false means some term with a value does not hold.
C15_IsIsSignedConjunction ==
    call.op = "is" =>
        /\ (\A i \in TermIds(call.expr) : TermValue(call.expr, i) # "E") =>
              call.result = IF \A i \in TermIds(call.expr) : TermHolds(call.expr, i)
                            THEN "T" ELSE "F"
        /\ call.result = "T" =>
              \A i \in TermIds(call.expr) :
                  TermValue(call.expr, i) # "E" /\ TermHolds(call.expr, i)
        /\ call.result = "F" =>
              \E i \in TermIds(call.expr) :
                  TermValue(call.expr, i) # "E" /\ ~TermHolds(call.expr, i)

\* "File AND NOT(Dummy) AND Image" is true of an image file
C15_Witness ==
    /\ call.op = "is"
    /\ call.expr = [head |-> SingleTag(TagFile, TRUE),
                    rest |-> <<SingleTag(TagDummy, FALSE), SingleTag(TagImage, TRUE)>>]
    /\ fs["D"]["a"] = FileEntry(2)
    /\ call.result = "T"

\* the number of terms of e whose tag is t
Count(e, t) == Cardinality({i \in TermIds(e) : Terms(e)[i].tag = t})

\* C16: has(tag) is true iff tag equals (name, description, basis) the tag of the
\* head or of a term of rest; and after remove(tag), has(tag) is false unless
\* the expression held the tag more than once.
C16_HasIffPresentRemoveClears ==
    /\ call.op = "has" =>
          (call.result = "T" <=> \E i \in TermIds(call.expr) :
                                     /\ Terms(call.expr)[i].tag.name = call.tag.name
                                     /\ Terms(call.expr)[i].tag.desc = call.tag.desc
                                     /\ Terms(call.expr)[i].tag.basis = call.tag.basis)
    /\ call.op = "remove" =>
          (TagExprHas(call.expr, call.tag) => Count(call.pre, call.tag) >= 2)

\* C17: an expression made by new or default and changed by push and remove
\* has at least one term, and remove takes away at most one term.
C17_AtLeastOneTerm ==
    /\ NumTerms(call.expr) >= 1
    /\ call.op = "remove" =>
          /\ NumTerms(call.expr) >= NumTerms(call.pre) - 1
          /\ NumTerms(call.pre) = 1 => NumTerms(call.expr) = 1

\* remove of the tag of the only term
C17_Witness ==
    /\ call.op = "remove"
    /\ call.pre = TagExprNew(TagFile, TRUE)
    /\ call.tag = TagFile
    /\ NumTerms(call.expr) = 1

(***************************************************************************)
(* SpecExec: one call of Event::execute on directory D                     *)
(***************************************************************************)
IsImageExpr == TagExprNew(TagImage, TRUE)

EventPool ==
    { EventCopy(IsImageExpr, "T", FALSE),
      EventMove(TagExprNew(TagImage, FALSE), "T", TRUE),
      EventTrash(TagExprPush(IsFileExpr, TagImage, TRUE)),
      EventCopy(IsFileExpr, "T", FALSE) }

InitExec ==
    /\ \E da, db \in {NoEntry, DirEntry, FileEntry(1), FileEntry(2), FileEntry(3)},
          ta \in {NoEntry, FileEntry(2)} :
            fs = FsOf(Both(da, db), OnlyA(ta), EmptyDir)
    /\ \E kd \in {"dir", "unreadable"} :
            dirKind = [d \in Dirs |-> IF d = "D" THEN kd ELSE "dir"]
    /\ call = [op |-> "none", event |-> EventTrash(IsFileExpr), dir |-> "D", pre |-> fs,
               ok |-> FALSE, files |-> <<>>, results |-> <<>>]
    /\ IdleScheduler

\* event.execute("D")
Execute ==
    /\ call.op = "none"
    /\ \E event \in EventPool :
          LET r == execute(event, fs, dirKind, "D", faulty)
          IN  /\ fs' = r.fs
              /\ call' = [op |-> "execute", event |-> event, dir |-> "D", pre |-> fs,
                          ok |-> r.ok, files |-> r.files, results |-> r.results]
    /\ UNCHANGED <<dirKind, schedVars>>

NextExec == Execute

SpecExec == InitExec /\ [][NextExec]_vars

(***************************************************************************)
(* Claims about Event::execute (SpecExec)                                  *)
(***************************************************************************)
\* the items listed by the call, and the value of the event's expression on each
Listed == read_path(call.pre, dirKind, call.dir)
ExprValue(i) == TagExprIs(call.event.expr, Listed.items[i], call.pre, dirKind)
InBatch(p) == \E j \in 1..Len(call.files) : call.files[j] = p

\* C18: when the directory can be listed, execute returns Ok whatever the
\* expression does on single items; an item on which the expression errs is
\* left out of the batch and untouched, like an item that does not match;
\* every item that matches, before or after it in the listing, is in the
\* batch and has an outcome.
C18_ItemErrorExcludesOnlyThatItem ==
    (call.op = "execute" /\ Listed.ok) =>
        /\ call.ok
        /\ Len(call.results) = Len(call.files)
        /\ \A i \in 1..Len(Listed.items) :
              /\ ExprValue(i) \in {"E", "F"} =>
                    /\ ~InBatch(Listed.items[i].path)
                    /\ EntryAt(fs, Listed.items[i].path) = EntryAt(call.pre, Listed.items[i].path)
              /\ ExprValue(i) = "T" => InBatch(Listed.items[i].path)

\* a is of no known format (the Image predicate errs on it), b is an image:
\* b alone is copied
C18_Witness ==
    /\ call.op = "execute"
    /\ call.event = EventCopy(IsImageExpr, "T", FALSE)
    /\ call.pre["D"]["a"] = FileEntry(1)
    /\ call.pre["D"]["b"] = FileEntry(2)
    /\ call.ok
    /\ call.files = <<Path("D", "b")>>
    /\ Len(call.results) = 1 /\ call.results[1].kind = "Ok"
    /\ fs["T"]["b"] = FileEntry(2)
    /\ fs["T"]["a"] = call.pre["T"]["a"]

\* C27: remove(tag) on an expression whose head has the tag and whose rest is
\* not empty makes the first term of rest, sign included, the head and keeps the
\* other terms of rest as they are: one term less; when the head has another
\* tag and rest holds the tag, the first such term of rest is taken out and
\* the head and the other terms stay as they are.
C27_RemovePromotesOrDropsFirstMatch ==
    call.op = "remove" =>
        /\ (call.pre.head.tag = call.tag /\ call.pre.rest # <<>>) =>
              /\ call.expr.head = call.pre.rest[1]
              /\ call.expr.rest = Tail(call.pre.rest)
              /\ NumTerms(call.expr) = NumTerms(call.pre) - 1
        /\ (call.pre.head.tag # call.tag
               /\ \E i \in 1..Len(call.pre.rest) : call.pre.rest[i].tag = call.tag) =>
              /\ call.expr.head = call.pre.head
              /\ NumTerms(call.expr) = NumTerms(call.pre) - 1
              /\ \E i \in 1..Len(call.pre.rest) :
                    /\ call.pre.rest[i].tag = call.tag
                    /\ \A j \in 1..(i - 1) : call.pre.rest[j].tag # call.tag
                    /\ \A j \in 1..(i - 1) : call.expr.rest[j] = call.pre.rest[j]
                    /\ \A j \in i..Len(call.expr.rest) : call.expr.rest[j] = call.pre.rest[j + 1]

\* "Dummy AND File AND NOT(File)" without File is "Dummy AND NOT(File)"
C27_Witness ==
    /\ call.op = "remove"
    /\ call.tag = TagFile
    /\ call.pre = [head |-> SingleTag(TagDummy, TRUE),
                   rest |-> <<SingleTag(TagFile, TRUE), SingleTag(TagFile, FALSE)>>]
    /\ call.expr = [head |-> SingleTag(TagDummy, TRUE),
                    rest |-> <<SingleTag(TagFile, FALSE)>>]

\* C28: push(tag, used) puts exactly one term, with that tag and sign, at the
\* end and leaves the terms before it as they were, also when the tag is
\* already in the expression; and on an item for which is() has a value before
\* and after, the expression after the push is true only if it was true before.
C28_PushAppendsAndIsStricter ==
    call.op = "push" =>
        /\ Terms(call.expr) = Terms(call.pre) \o <<SingleTag(call.tag, call.used)>>
        /\ call.expr.head = call.pre.head
        /\ (/\ TagExprIs(call.expr, TheItem, fs, dirKind) = "T"
            /\ TagExprIs(call.pre, TheItem, fs, dirKind) # "E") =>
              TagExprIs(call.pre, TheItem, fs, dirKind) = "T"

\* a second term for a tag the expression already has
C28_Witness ==
    /\ call.op = "push"
    /\ call.tag = TagFile
    /\ TagExprHas(call.pre, TagFile)
    /\ NumTerms(call.expr) = NumTerms(call.pre) + 1
    /\ Count(call.expr, TagFile) = 2

\* C29: every Ok outcome of execute is a LogEntry with the event executed and
\* the path acted on (outcome i belongs to path i of the batch); its source is
\* the event's target directory for Copy and Move and absent for Trash.
C29_EntryCarriesEventTargetPath ==
    (call.op = "execute" /\ call.ok) =>
        \A i \in 1..Len(call.results) :
            call.results[i].kind = "Ok" =>
                /\ i <= Len(call.files)
                /\ call.results[i].val.event = call.event
                /\ call.results[i].val.file = call.files[i]
                /\ call.event.tp \in {"Copy", "Move"} =>
                      /\ call.results[i].val.source = call.event.target
                      /\ call.results[i].val.source \in Dirs
                /\ call.event.tp = "Trash" => call.results[i].val.source = NoDir

\* the trash event removed the image a: its entry has no source
C29_Witness ==
    /\ call.op = "execute"
    /\ call.event.tp = "Trash"
    /\ call.pre["D"]["a"] = FileEntry(2)
    /\ fs["D"]["a"] = NoEntry
    /\ Len(call.results) >= 1
    /\ call.results[1] = Ok(LogEntry(call.event, NoDir, Path("D", "a")))

C26_Step ==
    \A w \in Ids :
        LET wk == workers[w]
            nx == workers'[w]
        IN  (/\ wk.pc = "list"
             /\ nx # wk
             /\ ~read_path(fs, dirKind, JobOf(wk).dir).ok) =>
                /\ ~selectFiles(JobOf(wk).event, fs, dirKind, JobOf(wk).dir).ok
                /\ fs' = fs
                /\ log' = log
                /\ nx.pc \in {"list", "check"}
                /\ nx.pc = "list" => nx.pos = wk.pos + 1

\* C26: when the directory of an event cannot be listed, execute fails as a
\* whole: the step changes neither the filesystem nor the log, and the worker
\* goes to its next event (or ends the pass) without file actions and without
\* a push for this event.
C26_UnlistableDirNoActionNoEntry == [][C26_Step]_vars

\* a pass over an unreadable D and a readable E has ended: D is as it was, and
\* the log holds the one entry of E
C26_Witness ==
    /\ Len(workers) = 1
    /\ dirKind["D"] = "unreadable"
    /\ DOMAIN workers[1].snap = {"D", "E"}
    /\ workers[1].tick = 1
    /\ workers[1].pc = "check"
    /\ fs["D"] = fs0["D"]
    /\ Len(log) = 1
    /\ log[1].file.dir = "E"

(***************************************************************************)
(* SpecItem: an Item made by Item::new for D/a; size() is called on it     *)
(* while other programs change, replace or remove the file                 *)
(***************************************************************************)
ItemPath == Path("D", "a")

ItemCall(op, item, pre, made, ok, val) ==
    [op |-> op, item |-> item, pre |-> pre, made |-> made, ok |-> ok, val |-> val]

InitItem ==
    /\ \E e \in {DirEntry, FileEntry(1), FileEntry(2), FileEntry(3)} :
          fs = FsOf(OnlyA(e), EmptyDir, EmptyDir)
    /\ dirKind = AllDirs
    /\ call = ItemCall("new", Item(fs, ItemPath), Item(fs, ItemPath),
                       Item(fs, ItemPath).file_type, TRUE, NoSize)
    /\ IdleScheduler

\* item.size()
ItemSize ==
    /\ LET r == size(call.item, fs, dirKind)
       IN  call' = ItemCall("size", r.item, call.item, call.made, r.ok, r.val)
    /\ UNCHANGED <<fs, dirKind, schedVars>>

\* another program writes, replaces or removes the file
Touch ==
    /\ \E e \in {NoEntry, DirEntry, FileEntry(1), FileEntry(2), FileEntry(3)} :
          /\ e # fs["D"]["a"]
          /\ fs' = [fs EXCEPT !["D"]["a"] = e]
    /\ call' = ItemCall("touch", call.item, call.item, call.made, TRUE, NoSize)
    /\ UNCHANGED <<dirKind, schedVars>>

NextItem == ItemSize \/ Touch

SpecItem == InitItem /\ [][NextItem]_vars

(***************************************************************************)
(* Claims about Item (SpecItem)                                            *)
(***************************************************************************)
\* C24: the file type of an Item is the one found when the Item was made:
\* no call of size() changes it, whatever has become of the file.
C24_FileTypeFixedAtCreation == call.item.file_type = call.made

\* C30: an Item is made without a size; a size() on an Item that has a size
\* returns that size and leaves the Item as it is, whatever the file is now;
\* a size() without a cached size measures the file and keeps the result; a
\* size() that fails leaves the Item, still without a size, as it was.
C30_SizeLazyAndCached ==
    /\ call.op = "new" => call.item.size = NoSize
    /\ call.op = "size" =>
          /\ call.pre.size # NoSize =>
                call.ok /\ call.val = call.pre.size /\ call.item = call.pre
          /\ (call.pre.size = NoSize /\ call.ok) =>
                /\ call.val = get_size(fs, dirKind, ItemPath).val
                /\ call.item.size = call.val
          /\ ~call.ok => call.item = call.pre /\ call.item.size = NoSize

\* the size measured earlier is returned although the file has another size now
C30_Witness ==
    /\ call.op = "size"
    /\ call.pre.size = 1
    /\ fs["D"]["a"] = FileEntry(3)
    /\ call.ok /\ call.val = 1
    /\ call.item.size = 1

(***************************************************************************)
(* SpecApp: the running application. The foreground adds, edits and        *)
(* deletes rules (each handler ends in executor.restart) and opens or      *)
(* refreshes the log window; the workers go through their passes, taking   *)
(* the log mutex for their pushes.                                         *)
(***************************************************************************)
\* the holder of the log mutex when it is the foreground thread
Foreground == -1

\* data.explorer.dir(): the directory the explorer shows
CurrentDir == "D"

\* the rules the rule editor hands over
RulePool == {RuleCopyOver}

AppScenarios ==
    { \* one file to copy
      [rules |-> [d \in {"D"} |-> <<RuleCopy>>],
       fs |-> FsOf(OnlyA(FileEntry(1)), EmptyDir, EmptyDir),
       kind |-> AllDirs, faulty |-> {}] }

\* App::init has called executor.restart(db.rules()) once; no log window yet
InitApp ==
    /\ \E s \in AppScenarios :
          /\ fs = s.fs
          /\ dirKind = s.kind
          /\ faulty = s.faulty
          /\ rules = s.rules
    /\ fs0 = fs
    /\ call = [op |-> "init"]
    /\ \E order \in Orders(DOMAIN rules) : workers = <<NewWorker(rules, order)>>
    /\ chan = <<"empty">>
    /\ sender = 1
    /\ log = <<>>
    /\ mutex = NoWorker
    /\ logBy = <<>>
    /\ overlap = {}
    /\ lastCall = "restart"

\* the foreground thread is between two handlers
ForegroundIdle == mutex # Foreground

\* AppMsg::NewRule(rule): entry(dir).or_insert(vec![]).push(rule), then restart
NewRule ==
    /\ ForegroundIdle
    /\ \E d \in {CurrentDir}, rule \in RulePool :
          rules' = [k \in DOMAIN rules \cup {d} |->
                      IF k = d
                      THEN Append(IF d \in DOMAIN rules THEN rules[d] ELSE <<>>, rule)
                      ELSE rules[k]]
    /\ restart(rules')
    /\ call' = [call EXCEPT !.op = "NewRule"]
    /\ UNCHANGED <<fs, dirKind, log, mutex, logBy, overlap, faulty, fs0>>

\* AppMsg::EditRule(index, rule): the rule at index replaced, then restart
EditRule ==
    /\ ForegroundIdle
    /\ \E d \in {CurrentDir} \cap DOMAIN rules, rule \in RulePool :
          \E index \in 1..Len(rules[d]) :
              /\ rules[d][index] # rule
              /\ rules' = [rules EXCEPT ![d][index] = rule]
    /\ restart(rules')
    /\ call' = [call EXCEPT !.op = "EditRule"]
    /\ UNCHANGED <<fs, dirKind, log, mutex, logBy, overlap, faulty, fs0>>

\* AppMsg::DeleteRule(index): the rule at index removed, then restart
DeleteRule ==
    /\ ForegroundIdle
    /\ \E d \in {CurrentDir} \cap DOMAIN rules :
          \E index \in 1..Len(rules[d]) :
              rules' = [rules EXCEPT ![d] = RemoveAt(rules[d], index)]
    /\ restart(rules')
    /\ call' = [call EXCEPT !.op = "DeleteRule"]
    /\ UNCHANGED <<fs, dirKind, log, mutex, logBy, overlap, faulty, fs0>>

\* log window, ShowLog or Refresh: `model.log.lock()`
ViewLock ==
    /\ mutex = NoWorker
    /\ mutex' = Foreground
    /\ UNCHANGED <<fs, dirKind, call, rules, sender, workers, chan, log, logBy, overlap,
                   lastCall, faulty, fs0>>

\* `.entries().iter().rev().map(entry_view).collect()`: the rows are built from
\* the entries, which are only read; then the guard is dropped
ViewRead ==
    /\ mutex = Foreground
    /\ lastCall' = "view"
    /\ mutex' = NoWorker
    /\ UNCHANGED <<fs, dirKind, call, rules, sender, workers, chan, log, logBy, overlap,
                   faulty, fs0>>

\* the lock taken before event.execute(dir) is called
WorkerLockBeforeExecute(w) ==
    /\ workers[w].pc = "list"
    /\ mutex = NoWorker
    /\ mutex' = w
    /\ UNCHANGED <<fs, dirKind, call, rules, sender, workers, chan, log, logBy, overlap,
                   lastCall, faulty, fs0>>

\* `Ok(results) => { let mut log = log.lock().expect(..)`: waits for the mutex
WorkerLock(w) ==
    /\ workers[w].pc = "lock"
    /\ mutex = NoWorker
    /\ mutex' = w
    /\ workers' = [workers EXCEPT ![w].pc = "push"]
    /\ UNCHANGED <<fs, dirKind, call, rules, sender, chan, log, logBy, overlap,
                   lastCall, faulty, fs0>>

\* a push loop that takes the mutex for each entry on its own
WorkerPushLockedPerEntry(w) ==
    /\ workers[w].pc = "push"
    /\ mutex = w
    /\ LET rs == workers[w].results
       IN  IF rs = <<>>
           THEN /\ log' = log
                /\ workers' = [workers EXCEPT ![w] = Advance(workers[w])]
           ELSE /\ log' = pushResults(log, <<Head(rs)>>)
                /\ workers' = [workers EXCEPT ![w].results = Tail(rs),
                                              ![w].pc = IF Tail(rs) = <<>> THEN Advance(workers[w]).pc ELSE "lock",
                                              ![w].pos = IF Tail(rs) = <<>> THEN Advance(workers[w]).pos ELSE @]
    /\ logBy' = logBy \o [i \in 1..(Len(log') - Len(log)) |-> <<w, workers[w].tick>>]
    /\ mutex' = NoWorker
    /\ UNCHANGED <<fs, dirKind, call, rules, sender, chan, overlap, lastCall, faulty, fs0>>

\* the loop over the results under the guard, and the guard dropped
WorkerPushLocked(w) ==
    /\ workers[w].pc = "push"
    /\ mutex = w
    /\ log' = pushResults(log, workers[w].results)
    /\ logBy' = logBy \o [i \in 1..(Len(log') - Len(log)) |-> <<w, workers[w].tick>>]
    /\ mutex' = NoWorker
    /\ workers' = [workers EXCEPT ![w] = Advance(workers[w])]
    /\ UNCHANGED <<fs, dirKind, call, rules, sender, chan, overlap, lastCall, faulty, fs0>>

AppWorker(w) ==
    WorkerCheck(w) \/ WorkerList(w) \/ WorkerAct(w) \/ WorkerLock(w) \/ WorkerPushLocked(w)

NextApp ==
    \/ NewRule
    \/ EditRule
    \/ DeleteRule
    \/ ViewLock
    \/ ViewRead
    \/ \E w \in Ids : AppWorker(w)

SpecApp == InitApp /\ [][NextApp]_vars

(***************************************************************************)
(* Claims about the log and the rule map in the running application        *)
(***************************************************************************)
C21_Step ==
    /\ Len(log') >= Len(log)
    /\ SubSeq(log', 1, Len(log)) = log
    /\ rules' # rules => log' = log

\* C21: the log only grows at its end: over every step (a worker's step, a
\* restart through a rule handler, a stop, a read by the log window) the log
\* before the step is a prefix of the log after it, and a step that edits the
\* rules leaves every entry, the event it holds included, as it was.
C21_LogAppendOnly == [][C21_Step]_vars

\* the first entry holds the event of a rule that has been edited away since;
\* a newer worker has pushed after it, and the log window has shown the log
C21_Witness ==
    /\ Len(log) >= 2
    /\ log[1].event = RuleCopy.events[1]
    /\ \A d \in DOMAIN rules : \A i \in 1..Len(rules[d]) : rules[d][i] # RuleCopy
    /\ logBy[1][1] = 1
    /\ logBy[Len(log)][1] = 2
    /\ lastCall = "view"

C22_Held ==
    /\ mutex \in {NoWorker, Foreground} \cup Ids
    /\ \A w \in Ids : mutex = w <=> workers[w].pc = "push"

C22_Step ==
    /\ log' # log => mutex \in Ids /\ mutex' = NoWorker
    /\ (lastCall' = "view" /\ lastCall # "view") => mutex = Foreground /\ mutex' = NoWorker
    /\ \A w \in Ids :
          /\ (mutex # w /\ mutex' = w) => workers[w].pc = "lock"
          /\ (workers[w].pc \in {"list", "act"} /\ workers'[w] # workers[w]) =>
                mutex # w /\ mutex' # w
    /\ fs' # fs => \E w \in Ids : workers[w].pc = "act" /\ mutex # w

\* C22: one mutex guards the log: the log changes only in a step of the worker
\* that holds it, the log window's list changes only in a step of the
\* foreground holding it; a worker holds it exactly while it is at its push
\* loop, takes it only once execute has returned Ok, and no step of execute
\* (listing, filter, copy / move / trash) is taken by a thread that holds it.
C22_MutexOnlyAroundPushAndRead == [](C22_Held) /\ [][C22_Step]_vars

\* a worker holds the mutex with results of execute to push, after the log
\* window has read earlier entries under the same mutex
C22_Witness ==
    /\ mutex \in Ids
    /\ workers[mutex].pc = "push"
    /\ \E i \in 1..Len(workers[mutex].results) : workers[mutex].results[i].kind = "Ok"
    /\ lastCall = "view"
    /\ log # <<>>

C23_Newest == workers[Len(workers)].snap = rules

C23_Step ==
    \A w \in Ids :
        /\ workers'[w].snap = workers[w].snap
        /\ workers'[w].order = workers[w].order

\* C23: no step changes the rule map (or the order of its directories) a
\* worker was started with, the rule handlers' steps included, and the map of
\* the worker started last is the foreground's map of now, which changes only
\* in a handler that restarts.
C23_SnapshotIsCloneAtRestart == [](C23_Newest) /\ [][C23_Step]_vars

\* the first worker is inside a pass over the map it was started with, which
\* the foreground has edited since; the second worker has the edited map
C23_Witness ==
    /\ Len(workers) = 2
    /\ workers[1].pc = "act"
    /\ workers[1].snap # rules
    /\ workers[1].snap["D"] = <<RuleCopy>>
    /\ workers[2].snap = rules
    /\ call.op \in {"NewRule", "EditRule", "DeleteRule"}

(***************************************************************************)
(* SpecLive: the Executor called with restart and stop, its threads run by *)
(* a scheduler that gives every runnable thread a turn again and again     *)
(* (a listing, a copy / move / trash, the sleep and the mutex all return)  *)
(***************************************************************************)
LiveScenarios ==
    { \* one file to copy
      [rules |-> [d \in {"D"} |-> <<RuleCopy>>],
       fs |-> FsOf(OnlyA(FileEntry(1)), EmptyDir, EmptyDir),
       kind |-> AllDirs, faulty |-> {}] }

InitLive ==
    /\ \E s \in LiveScenarios :
          /\ fs = s.fs
          /\ dirKind = s.kind
          /\ faulty = s.faulty
          /\ rules = s.rules
    /\ fs0 = fs
    /\ call = [op |-> "none"]
    /\ sender = NoWorker
    /\ workers = <<>>
    /\ chan = <<>>
    /\ log = <<>>
    /\ mutex = NoWorker
    /\ logBy = <<>>
    /\ overlap = {}
    /\ lastCall = "none"

\* the thread of worker w takes its next step
Scheduled(w) == w \in Ids /\ Worker(w)

SpecLive ==
    /\ InitLive
    /\ [][Next]_vars
    /\ \A w \in 1..MaxWorkers : WF_vars(Scheduled(w))

\* C25: a worker whose channel holds a stop message, sent by stop or by the
\* next restart, comes to its end; and in every state, whatever the workers are
\* at, stop can be called and returns.
C25_StoppedWorkerTerminates ==
    /\ \A w \in 1..MaxWorkers :
          (w \in Ids /\ chan[w] = "msg") ~> (w \in Ids /\ workers[w].pc = "done")
    /\ [](ENABLED Stop)

\* a worker that the message reached inside a pass has finished the pass,
\* taken the message and returned
C25_Witness ==
    \E w \in Ids :
        /\ workers[w].pc = "done"
        /\ chan[w] = "taken"
        /\ workers[w].tick >= 1
        /\ workers[w].sigMid \in {"early", "late"}

(***************************************************************************)
(* SpecLife: the built-in lifetime tags, asked about one file while the    *)
(* clock moves; times are in seconds                                       *)
(***************************************************************************)
NoTime == -1                   \* std::fs::metadata(path)?.created()? is an Err

\* is_lifetime -> "T" | "F" | "E"; duration_since is an Err when the creation
\* time lies after now
is_lifetime(created, now, ordering, duration) ==
    IF created = NoTime \/ now < created THEN "E"
    ELSE LET dur == now - created
         IN  IF ordering = "Greater"
             THEN (IF dur > duration THEN "T" ELSE "F")
             ELSE (IF dur < duration THEN "T" ELSE "F")

BaseLifetimeGT(duration) == [k |-> "LifetimeGT", v |-> duration]

\* all_tags_sorted_by_columns, third column
TagLifetime1h ==
    [name |-> "Lifetime > 1h", desc |-> "Files that were created more than 1 hour ago",
     basis |-> BaseLifetimeGT(360)]
TagLifetime8h ==
    [name |-> "Lifetime > 8h", desc |-> "Files that were created more than 8 hours ago",
     basis |-> BaseLifetimeGT(28800)]
TagLifetime24h ==
    [name |-> "Lifetime > 24h", desc |-> "Files that were created more than 24 hours ago",
     basis |-> BaseLifetimeGT(86400)]
LifetimeTags == {TagLifetime1h, TagLifetime8h, TagLifetime24h}

\* Base::is for Base::LifetimeGT(duration)
LifetimeTagIs(tag, created, now) == is_lifetime(created, now, "Greater", tag.basis.v)

\* the times of day the file is made and looked at
Instants == {0, 359, 360, 361, 3599, 3600, 3601, 28799, 28800, 28801, 86399, 86400, 86401}

LifeCall(op, tag, created, now, result) ==
    [op |-> op, tag |-> tag, created |-> created, now |-> now, result |-> result]

InitLife ==
    /\ fs = FsOf(OnlyA(FileEntry(1)), EmptyDir, EmptyDir)
    /\ dirKind = AllDirs
    /\ \E created \in {0, 3600, NoTime}, now \in Instants :
          call = LifeCall("none", TagLifetime1h, created, now, "F")
    /\ IdleScheduler

\* tag.is(item) for a lifetime tag
LifetimeIs ==
    /\ \E tag \in LifetimeTags :
          call' = LifeCall("is", tag, call.created, call.now,
                           LifetimeTagIs(tag, call.created, call.now))
    /\ UNCHANGED <<fs, dirKind, schedVars>>

\* time passes
Wait ==
    /\ \E now \in Instants :
          /\ now > call.now
          /\ call' = LifeCall("wait", call.tag, call.created, now, call.result)
    /\ UNCHANGED <<fs, dirKind, schedVars>>

NextLife == LifetimeIs \/ Wait

SpecLife == InitLife /\ [][NextLife]_vars

\* the hours a lifetime tag names
StatedSeconds(tag) ==
    CASE tag = TagLifetime1h -> 1 * 3600
      [] tag = TagLifetime8h -> 8 * 3600
      [] OTHER -> 24 * 3600

\* C31: a lifetime tag is true of a file exactly when the file was made more
\* than the named number of hours (1, 8, 24, each 3600 seconds) ago.
C31_LifetimeTagsMeanTheirHours ==
    (call.op = "is" /\ call.result # "E") =>
        (call.result = "T" <=> call.now - call.created > StatedSeconds(call.tag))

(***************************************************************************)
(* Short-circuit evaluation of tag expressions in Event::execute (SpecExec)*)
(***************************************************************************)
\* the value of term n of the event's expression on listed item i
ExecTermValue(i, n) ==
    SingleIs(Terms(call.event.expr)[n], Listed.items[i], call.pre, dirKind)

ExecTermCount == Len(Terms(call.event.expr))

\* the reference semantics: every term is evaluated, an error of any term is
\* the error of the expression, otherwise the conjunction
ReferenceValue(i) ==
    IF \E n \in 1..ExecTermCount : ExecTermValue(i, n) = "E" THEN "E"
    ELSE IF \A n \in 1..ExecTermCount : ExecTermValue(i, n) = "T" THEN "T" ELSE "F"

\* C32: is() returns an error exactly when some term errs and every term
\* before it is true; when the first term that is not true is false, is()
\* returns false whatever later terms would do. The batch of execute is all the
\* same the batch of the reference semantics: the items on which every term
\* is true.
C32_ShortCircuitSelectsTheSame ==
    (call.op = "execute" /\ Listed.ok) =>
        \A i \in 1..Len(Listed.items) :
            /\ ExprValue(i) = "E" <=>
                  \E n \in 1..ExecTermCount :
                      ExecTermValue(i, n) = "E" /\ \A m \in 1..(n - 1) : ExecTermValue(i, m) = "T"
            /\ (\E n \in 1..ExecTermCount :
                    ExecTermValue(i, n) = "F" /\ \A m \in 1..(n - 1) : ExecTermValue(i, m) = "T")
                  => ExprValue(i) = "F"
            /\ InBatch(Listed.items[i].path) <=> ReferenceValue(i) = "T"

\* a folder on which the first term (is a file) is false and the second (is an
\* image) would err: is() says false; the image next to it is in the batch
C32_Witness ==
    /\ call.op = "execute"
    /\ Listed.ok
    /\ Len(Listed.items) = 2
    /\ ExecTermCount = 2
    /\ ExecTermValue(1, 1) = "F" /\ ExecTermValue(1, 2) = "E"
    /\ ExprValue(1) = "F"
    /\ ReferenceValue(1) = "E"
    /\ ReferenceValue(2) = "T"
    /\ InBatch(Listed.items[2].path)

(***************************************************************************)
(* Claims about what repeated passes log (SpecPass: one worker, one rule   *)
(* map, nobody else writes to the directories)                             *)
(***************************************************************************)
\* the rule map is one rule of one event on D
OneEvent == DOMAIN rules = {"D"} /\ Len(rules["D"]) = 1 /\ Len(rules["D"][1].events) = 1
TheEvent == rules["D"][1].events[1]

\* the files the event selects in the directory as it was at the start
MatchingAtStart == selectFiles(TheEvent, fs0, dirKind, "D").files

C33_Applies ==
    /\ OneEvent
    /\ \/ TheEvent.tp = "Copy" /\ ~TheEvent.overwrite /\ TheEvent.target # "D"
       \/ TheEvent.tp = "Move" /\ TheEvent.target # "D"
       \/ TheEvent.tp = "Trash"

\* C33: under one rule of one Copy (no overwrite), Move or Trash event with a
\* target other than the watched directory, the log never holds two entries
\* for one file: every entry is for a file that matched at the start and was
\* pushed in the first pass, whatever the number of passes.
C33_AtMostOneEntryPerFile ==
    C33_Applies =>
        /\ \A i, j \in 1..Len(log) : log[i].file = log[j].file => i = j
        /\ \A i \in 1..Len(log) :
              /\ \E n \in 1..Len(MatchingAtStart) : MatchingAtStart[n] = log[i].file
              /\ logBy[i][2] = 1
        /\ Len(log) <= Len(MatchingAtStart)

\* the third pass of a Trash rule is over; the one file was logged once
C33_Witness ==
    /\ C33_Applies
    /\ TheEvent.tp = "Trash"
    /\ workers[1].tick = 3
    /\ workers[1].pc = "check"
    /\ Len(MatchingAtStart) = 1
    /\ Len(log) = 1
    /\ ~exists(fs, dirKind, log[1].file)

C34_Applies ==
    /\ OneEvent
    /\ TheEvent.tp = "Copy" /\ TheEvent.overwrite /\ TheEvent.target # "D"
    /\ is_dir(dirKind, "D") /\ is_dir(dirKind, TheEvent.target)
    /\ faulty = {}

\* C34: under one rule of one Copy event with overwrite, every pass copies
\* every matching file again and logs it again: between passes the log holds
\* (passes done) x (matching files) entries, and the watched directory is as
\* it was.
C34_CopyOverwriteLogsEveryTick ==
    (C34_Applies /\ workers[1].pc = "check") =>
        /\ Len(log) = workers[1].tick * Len(MatchingAtStart)
        /\ fs["D"] = fs0["D"]
        /\ \A i \in 1..Len(log) :
              \E n \in 1..Len(MatchingAtStart) : MatchingAtStart[n] = log[i].file

\* three passes over two files: six entries, the last two from the third
\* pass, when the target already held both copies
C34_Witness ==
    /\ C34_Applies
    /\ workers[1].pc = "check"
    /\ workers[1].tick = 3
    /\ Len(MatchingAtStart) = 2
    /\ Len(log) = 6
    /\ logBy[5][2] = 3
    /\ log[5].file = log[1].file

(***************************************************************************)
(* The Executor's sender and the workers' channels (SpecLive)              *)
(***************************************************************************)
\* the workers that have not been sent a StopMessage
Unstopped == {w \in Ids : chan[w] = "empty"}

C35_Sender ==
    /\ Cardinality(Unstopped) <= 1
    /\ sender # NoWorker <=> Unstopped # {}
    /\ sender # NoWorker => Unstopped = {sender}

C35_Step ==
    \* a message is put only into an empty channel, and stays or is taken
    /\ \A w \in Ids :
          /\ (chan'[w] = "msg" /\ chan[w] # "msg") => chan[w] = "empty" /\ sender = w
          /\ chan[w] = "msg" => chan'[w] \in {"msg", "taken"}
          /\ chan[w] = "taken" => chan'[w] = "taken"
    \* a restart of an idle executor sends nothing
    /\ (sender = NoWorker /\ Restart) =>
          /\ \A w \in Ids : chan'[w] = chan[w]
          /\ sender' = Len(workers')
          /\ chan'[sender'] = "empty"
    \* a stop of an idle executor changes nothing
    /\ (sender = NoWorker /\ Stop) =>
          UNCHANGED <<fs, dirKind, call, rules, sender, workers, chan, log, mutex>>

\* C35: at most one worker has not been sent a StopMessage, and the Executor
\* holds a sender exactly when there is one, for that worker; no worker is
\* sent a second message; restart on an idle Executor sends none, stop on an
\* idle Executor (a second stop in a row too) sends nothing and changes nothing.
C35_OneUnstoppedWorkerOneMessageEach == [](C35_Sender) /\ [][C35_Step]_vars

\* after restart, restart, stop (or restart, stop, restart, stop): two workers,
\* each sent its one message, the Executor idle
C35_Witness ==
    /\ Len(workers) = 2
    /\ sender = NoWorker
    /\ lastCall = "stop"
    /\ chan[1] = "taken" /\ workers[1].pc = "done"
    /\ chan[2] = "msg"

(***************************************************************************)
(* SpecDrop: the Executor is called with restart and stop and then         *)
(* dropped, its sender with it; the spawned threads run on                 *)
(***************************************************************************)
\* drop(Executor): the Sender it holds is dropped, no message is sent; the
\* channel of that worker is disconnected
Drop ==
    /\ chan' = IF sender = NoWorker THEN chan ELSE [chan EXCEPT ![sender] = "closed"]
    /\ sender' = NoWorker
    /\ lastCall' = "drop"
    /\ call' = [op |-> "drop", ticks |-> TicksStarted]
    /\ UNCHANGED <<fs, dirKind, rules, workers, log, mutex, logBy, overlap, faulty, fs0>>

\* the Executor is still there to be called
ExecutorAlive == lastCall # "drop"

NextDrop ==
    \/ ExecutorAlive /\ Restart
    \/ ExecutorAlive /\ Stop
    \/ ExecutorAlive /\ Drop
    \/ \E w \in Ids : Worker(w)

SpecDrop == InitLive /\ [][NextDrop]_vars

C36_Step ==
    \A w \in Ids :
        chan[w] = "closed" =>
            /\ chan'[w] = "closed"
            /\ workers'[w].pc # "done"
            /\ WorkerCheck(w) =>
                  /\ workers'[w].tick = workers[w].tick + 1
                  /\ workers'[w].snap = workers[w].snap
                  /\ WJobs(workers[w]) # <<>> => workers'[w].pc = "list"

\* C36: a worker whose sender was dropped without a message never ends: its
\* channel stays disconnected, its stop check does not see a message, and
\* each time it comes to the check it starts another pass over its snapshot.
C36_DroppedSenderWorkerRunsOn == [][C36_Step]_vars

\* the worker has started a pass after the Executor was dropped and is
\* between passes again, having logged what that pass did
C36_Witness ==
    /\ call.op = "drop"
    /\ Len(workers) = 1
    /\ chan[1] = "closed"
    /\ workers[1].tick > call.ticks
    /\ workers[1].pc = "check"
    /\ log # <<>>

(***************************************************************************)
(* SpecPush: the Executor is restarted while workers copy two files with   *)
(* overwrite, so that an old and a new worker have batches of two entries  *)
(* to push at the same time                                                *)
(***************************************************************************)
PushScenarios ==
    { \* two files, copied again in every pass
      [rules |-> [d \in {"D"} |-> <<RuleCopyOver>>],
       fs |-> FsOf(Both(FileEntry(1), FileEntry(2)), EmptyDir, EmptyDir),
       kind |-> AllDirs, faulty |-> {}] }

InitPush ==
    /\ \E s \in PushScenarios :
          /\ fs = s.fs
          /\ dirKind = s.kind
          /\ faulty = s.faulty
          /\ rules = s.rules
    /\ fs0 = fs
    /\ call = [op |-> "none"]
    /\ sender = NoWorker
    /\ workers = <<>>
    /\ chan = <<>>
    /\ log = <<>>
    /\ mutex = NoWorker
    /\ logBy = <<>>
    /\ overlap = {}
    /\ lastCall = "none"

NextPush ==
    \/ Restart
    \/ \E w \in Ids : AppWorker(w)

SpecPush == InitPush /\ [][NextPush]_vars

\* C37: the entries of one execute call (one worker, one pass: the rule has
\* one event) lie next to each other in the log, in the order of the call's
\* outcomes (the listing order of the files), with no entry of another call
\* between them; a push step appends the whole batch at once.
C37_BatchContiguousInOrder ==
    /\ \A i, j \in 1..Len(log) :
          (i < j /\ logBy[i] = logBy[j]) =>
              /\ \A m \in i..j : logBy[m] = logBy[i]
              /\ log[i].file.name = "a" /\ log[j].file.name = "b"
    /\ Len(log) % 2 = 0
    /\ \A i \in 1..Len(log) : i % 2 = 1 => logBy[i] = logBy[i + 1]

\* the old worker, which finished its pass after the restart, and the new
\* worker have each pushed a batch of two; both were inside execute together
C37_Witness ==
    /\ Len(workers) = 2
    /\ Len(log) = 4
    /\ logBy[1] = <<2, 1>> /\ logBy[2] = <<2, 1>>
    /\ logBy[3] = <<1, 1>> /\ logBy[4] = <<1, 1>>
    /\ overlap # {}

(***************************************************************************)
(* SpecEdit: the rule editor window, opened on a rule, handles AddEvent,   *)
(* RemoveEventAt and ChangedPath messages; a panic in a handler ends it    *)
(***************************************************************************)
MaxEvents == 3
HomeDir == "D"                 \* dirs::home_dir()

EditCall(op, events, index, path, aborted) ==
    [op |-> op, events |-> events, index |-> index, path |-> path,
     aborted |-> aborted]

InitEdit ==
    /\ fs = FsOf(EmptyDir, EmptyDir, EmptyDir)
    /\ dirKind = AllDirs
    /\ \E r \in {Rule("", <<>>), RuleCopyOver, RuleMoveTrash} :
          call = EditCall("init", r.events, 0, NoDir, FALSE)
    /\ IdleScheduler

\* EditRuleInput::AddEvent(event), sent with Event::copy(), mv() or trash()
AddEvent ==
    /\ ~call.aborted
    /\ Len(call.events) < MaxEvents
    /\ \E event \in {EventCopy(TagExprDefault, HomeDir, FALSE),
                     EventMove(TagExprDefault, HomeDir, FALSE),
                     EventTrash(TagExprDefault)} :
          call' = EditCall("AddEvent", Append(call.events, event),
                           Len(call.events), NoDir, FALSE)
    /\ UNCHANGED <<fs, dirKind, schedVars>>

\* EditRuleInput::RemoveEventAt(index): Vec::remove panics past the end
RemoveEventAt ==
    /\ ~call.aborted
    /\ \E index \in 0..(MaxEvents - 1) :
          call' = IF index < Len(call.events)
                  THEN EditCall("RemoveEventAt",
                                [i \in 1..(Len(call.events) - 1) |->
                                    IF i <= index THEN call.events[i]
                                    ELSE call.events[i + 1]],
                                index, NoDir, FALSE)
                  ELSE EditCall("RemoveEventAt", call.events, index, NoDir, TRUE)
    /\ UNCHANGED <<fs, dirKind, schedVars>>

\* EditRuleInput::ChangedPath(index, path): set_path on the event at index,
\* nothing when get_mut(index) is None
ChangedPath ==
    /\ ~call.aborted
    /\ \E index \in 0..(MaxEvents - 1), path \in Dirs :
          call' = IF index < Len(call.events)
                  THEN LET r == set_path(call.events[index + 1], path)
                       IN  EditCall("ChangedPath",
                                    [call.events EXCEPT ![index + 1] = r.event],
                                    index, path, r.aborted)
                  ELSE EditCall("ChangedPath", call.events, index, path, FALSE)
    /\ UNCHANGED <<fs, dirKind, schedVars>>

NextEdit == AddEvent \/ RemoveEventAt \/ ChangedPath

SpecEdit == InitEdit /\ [][NextEdit]_vars

C38_Step ==
    (call'.op = "ChangedPath" /\ call'.index < Len(call.events)) =>
        LET old == call.events[call'.index + 1]
            new == call'.events[call'.index + 1]
        IN  /\ Len(call'.events) = Len(call.events)
            /\ \A i \in 1..Len(call.events) :
                  i # call'.index + 1 => call'.events[i] = call.events[i]
            /\ new.tp = old.tp
            /\ new.expr = old.expr
            /\ new.overwrite = old.overwrite
            /\ IF old.tp \in {"Copy", "Move"}
               THEN new.target = call'.path /\ ~call'.aborted
               ELSE new.target = old.target /\ call'.aborted

\* C38: a ChangedPath message that addresses a Copy or Move event replaces
\* the target of that event and leaves its expression, its overwrite flag and
\* its variant, and every other event, as they were; one that addresses a
\* Trash event ends in a panic, neither a silent return nor an error value.
C38_SetPathOnlyTargetTrashPanics == [][C38_Step]_vars

\* a ChangedPath has hit a Trash event after another one gave the overwriting
\* copy a target that no constructor and no opened rule supplies
C38_Witness ==
    /\ call.op = "ChangedPath"
    /\ call.aborted
    /\ call.events[call.index + 1].tp = "Trash"
    /\ \E i \in 1..Len(call.events) :
          /\ call.events[i].tp = "Copy"
          /\ call.events[i].overwrite
          /\ call.events[i].target = "E"

(***************************************************************************)
(* SpecNav: the Explorer of the main window is asked to open directories,  *)
(* to go back and forward and to refresh, while the directories it has     *)
(* visited stop being readable and become readable again                   *)
(***************************************************************************)
MaxHistory == 3

\* NavigationHistory::new; index counts from 0, vec[index + 1] is the entry
NavigationHistoryNew(path) == [vec |-> <<path>>, index |-> 0]

\* NavigationHistory::push: drop what lies after the index, append, advance
NavigationHistoryPush(h, path) ==
    [vec |-> Append(SubSeq(h.vec, 1, h.index + 1), path), index |-> h.index + 1]

can_go_back(h) == h.index > 0
can_go_forward(h) == h.index + 1 < Len(h.vec)

\* NavigationHistory::back / forward: move the index when possible, then
\* hand out the entry at the index
back(h) ==
    LET moved == IF can_go_back(h) THEN [h EXCEPT !.index = h.index - 1] ELSE h
    IN  [history |-> moved, path |-> moved.vec[moved.index + 1]]

forward(h) ==
    LET moved == IF can_go_forward(h) THEN [h EXCEPT !.index = h.index + 1] ELSE h
    IN  [history |-> moved, path |-> moved.vec[moved.index + 1]]

\* Explorer::update on an explorer ex: both fallible calls come first, then
\* the history push, then the assignments of dir and items
update(ex, f, k, path, update_history) ==
    LET r == read_path(f, k, path)
    IN  IF ~r.ok
        THEN [ok |-> FALSE, ex |-> ex]
        ELSE [ok |-> TRUE,
              ex |-> [dir |-> path,
                      items |-> r.items,
                      history |-> IF update_history
                                  THEN NavigationHistoryPush(ex.history, path)
                                  ELSE ex.history]]

\* Explorer::default in the home directory
ExplorerDefault(f, k) ==
    LET r == read_path(f, k, HomeDir)
    IN  [dir |-> HomeDir,
         items |-> IF r.ok THEN r.items ELSE <<>>,
         history |-> NavigationHistoryNew(HomeDir)]

NavCall(op, before, r) == [op |-> op, before |-> before, ex |-> r.ex, ok |-> r.ok]

InitNav ==
    /\ fs = FsOf(OnlyA(FileEntry(1)), EmptyDir, OnlyA(DirEntry))
    /\ dirKind = AllDirs
    /\ LET ex == ExplorerDefault(fs, dirKind)
       IN  call = NavCall("default", ex, [ex |-> ex, ok |-> TRUE])
    /\ IdleScheduler

\* explorer.open(path)
ExplorerOpen ==
    /\ call.ex.history.index + 1 < MaxHistory
    /\ \E path \in Dirs :
          call' = NavCall("open", call.ex, update(call.ex, fs, dirKind, path, TRUE))
    /\ UNCHANGED <<fs, dirKind, schedVars>>

\* explorer.go_back(): history.back() has moved the index before update runs
go_back ==
    /\ LET b == back(call.ex.history)
       IN  call' = NavCall("go_back", call.ex,
                           update([call.ex EXCEPT !.history = b.history],
                                  fs, dirKind, b.path, FALSE))
    /\ UNCHANGED <<fs, dirKind, schedVars>>

\* explorer.go_forward()
go_forward ==
    /\ LET b == forward(call.ex.history)
       IN  call' = NavCall("go_forward", call.ex,
                           update([call.ex EXCEPT !.history = b.history],
                                  fs, dirKind, b.path, FALSE))
    /\ UNCHANGED <<fs, dirKind, schedVars>>

\* explorer.refresh()
refresh ==
    /\ call' = NavCall("refresh", call.ex,
                       update(call.ex, fs, dirKind, call.ex.dir, FALSE))
    /\ UNCHANGED <<fs, dirKind, schedVars>>

\* outside the program: a directory loses or regains its read permission
Chmod ==
    /\ \E d \in Dirs :
          dirKind' = [dirKind EXCEPT ![d] = IF @ = "dir" THEN "unreadable" ELSE "dir"]
    /\ UNCHANGED <<fs, call, schedVars>>

NextNav == ExplorerOpen \/ go_back \/ go_forward \/ refresh \/ Chmod

SpecNav == InitNav /\ [][NextNav]_vars

C39_Current ==
    /\ call.ex.history.index >= 0
    /\ call.ex.history.index < Len(call.ex.history.vec)
    /\ call.ex.history.vec[call.ex.history.index + 1] = call.ex.dir

C39_Failed == ~call.ok => call.ex = call.before

\* C39: after every call of open, go_back, go_forward or refresh the entry of
\* the history at its index is the directory on display, and the index lies
\* inside the history; a call that returned Err has left dir, items and
\* history as they were before it.
C39_HistoryFollowsDir == C39_Current /\ C39_Failed

====
